---- MODULE Spec2Model ----
(***************************************************************************)
(* A model of the script execution engine of hof (src/script/script.go):   *)
(* the line parser, the environment list and map, the run loop with its    *)
(* guards, modifiers, dispatch and teardown, the background process list   *)
(* and the registry of named HTTP clients.                                 *)
(*                                                                         *)
(* Strings are sequences of one-character strings.  Go's 0-based indices   *)
(* and half-open slices are kept: At(s, i) is s[i], Slice(s, a, b) is      *)
(* s[a:b].                                                                 *)
(***************************************************************************)
EXTENDS Integers, Sequences, FiniteSets, TLC

\* ------------------------------------------------------------------ bounds

\* Longest line handed to parse in SpecParse.
MaxLineLen == 6

\* Longest variable list of SpecEnv (entries of Vars plus Setenv calls).
MaxEnv == 3

\* Most http commands of one script in SpecHttp.
MaxHttpOps == 3

\* Most lines of one script in Spec.
MaxLines == 2

\* Most exec: conditions one test unit evaluates in SpecCache.
MaxEvals == 2

\* The writes one registered function makes during a call.
MaxWrites == 2

\* Longest response body in SpecResp.
MaxBodyLen == 2

\* Most lines of one recorded output in SpecUpd.
MaxOutputLines == 2

\* Most lines of one script in SpecLog.
MaxLogLines == 4

\* Most subprocesses one test unit starts in SpecExec.
MaxProcs == 2

\* Most arguments of one http command in SpecArg.
MaxHttpArgs == 2

\* The script files RunT finds, one test unit each, in SpecWork.
MaxFiles == 3

\* ----------------------------------------------------------------- strings

At(s, i) == s[i + 1]

Slice(s, a, b) == SubSeq(s, a + 1, b)

HasPrefix(s, p) == Len(s) >= Len(p) /\ SubSeq(s, 1, Len(p)) = p

HasSuffix(s, p) == Len(s) >= Len(p) /\ SubSeq(s, Len(s) - Len(p) + 1, Len(s)) = p

\* strings.Index(s, c) for a one-character c: the first 0-based index, or -1.
RECURSIVE IndexFrom(_, _, _)
IndexFrom(s, c, i) ==
    IF i >= Len(s) THEN -1
    ELSE IF At(s, i) = c THEN i
    ELSE IndexFrom(s, c, i + 1)

Index(s, c) == IndexFrom(s, c, 0)

WhiteSpace == {" ", "\t", "\r", "\n"}

\* strings.TrimSpace
RECURSIVE TrimLeft(_)
TrimLeft(s) ==
    IF s # <<>> /\ Head(s) \in WhiteSpace THEN TrimLeft(Tail(s)) ELSE s

RECURSIVE TrimRight(_)
TrimRight(s) ==
    IF s # <<>> /\ s[Len(s)] \in WhiteSpace
    THEN TrimRight(SubSeq(s, 1, Len(s) - 1))
    ELSE s

TrimSpace(s) == TrimRight(TrimLeft(s))

LowerSeq ==
    <<"a", "b", "c", "d", "e", "f", "g", "h", "i", "j", "k", "l", "m",
      "n", "o", "p", "q", "r", "s", "t", "u", "v", "w", "x", "y", "z">>

UpperSeq ==
    <<"A", "B", "C", "D", "E", "F", "G", "H", "I", "J", "K", "L", "M",
      "N", "O", "P", "Q", "R", "S", "T", "U", "V", "W", "X", "Y", "Z">>

LowerLetters == {LowerSeq[i] : i \in 1..Len(LowerSeq)}

UpperLetters == {UpperSeq[i] : i \in 1..Len(UpperSeq)}

Digits == {"0", "1", "2", "3", "4", "5", "6", "7", "8", "9"}

Lower(c) ==
    IF c \in UpperLetters
    THEN LowerSeq[CHOOSE i \in 1..Len(UpperSeq) : UpperSeq[i] = c]
    ELSE c

Upper(c) ==
    IF c \in LowerLetters
    THEN UpperSeq[CHOOSE i \in 1..Len(LowerSeq) : LowerSeq[i] = c]
    ELSE c

ToLower(s) == [i \in 1..Len(s) |-> Lower(s[i])]

ToUpper(s) == [i \in 1..Len(s) |-> Upper(s[i])]

\* -------------------------------------------------------------------- maps

\* A Go map read: the zero value "" for a key that is absent.
MapGet(m, k) == IF k \in DOMAIN m THEN m[k] ELSE <<>>

MapPut(m, k, v) == [x \in (DOMAIN m) \cup {k} |-> IF x = k THEN v ELSE m[x]]

EmptyMap == [x \in {} |-> <<>>]

\* --------------------------------------------------------------- variables

VARIABLES
    \* the process
    windows,      \* runtime.GOOS == "windows"
    \* Script: the environment
    env,          \* ts.env: the list of KEY=VALUE entries
    envMap,       \* ts.envMap: case-normalized key -> value
    ePhase,       \* "new" before setup folds Vars in, "ready" after it
    eHook,        \* the Env the Setup hook is given: [Vars, Cd]
    eCd,          \* ts.cd
    \* the run of one test unit
    params,       \* verbose, testWork, updateScripts, what the Condition hook answers
    host,         \* the facts the standard conditions report
    pc,           \* where Script.run is
    lineno,       \* ts.lineno
    log,          \* ts.log, as a sequence of pieces of text
    mark,         \* ts.mark
    started,      \* ts.start is not the zero time
    background,   \* ts.background
    stopped,      \* ts.stopped
    failed,       \* Fatalf was called: [by, line], else <<>>
    lastLine,     \* the last line taken from the script and what became of it
    lastCall,     \* the last command handler invoked
    finalWait,    \* the wait after the loop has run
    tdDrained,    \* the processes the teardown drained, with their exit
    flushed,      \* the transcript given to t.Log
    deferred,     \* ts.deferred: <<>> for func() {}, else <<f, old>>
    registered,   \* the functions given to Defer, in the order of the calls
    ranDeferred,  \* the functions ts.deferred() has run, in the order run
    workdir,      \* "none", "present" or "removed"
    scriptUpd,      \* ts.scriptUpdates: "none", "recorded", then "written" or "failed"
    \* Script.condition, called on its own
    cName,        \* the condition asked for
    cState,       \* "idle", "ready" or "done"
    cOut,         \* what the call gave, and whether it asked the hook
    \* execCache, shared by the test units that run in parallel
    kDone,        \* per key: the entry holds a result
    kResult,      \* per key: the result
    kLock,        \* per key: the unit holding the entry's lock, or 0
    kProbes,      \* per program: how often PATH was searched for it
    kReturned,    \* per program: the answers given so far
    kPc,          \* per unit: where its evaluation is
    kProg,        \* per unit: the program it asks for
    kEvals,       \* per unit: evaluations finished
    kPath,        \* per unit: the programs found on the unit's PATH
    kAnswer,      \* per unit: the last answer given, and the PATH it was given under
    \* Script.call, by the test units that run in parallel
    osStdout,     \* os.Stdout, the variable of the process
    osStderr,     \* os.Stderr
    callPc,       \* per unit: where its call is
    oldstd,       \* per unit: oldstdout and oldstderr
    pipes,        \* per unit: the bytes that went into its two pipes
    wrote,        \* per unit: the bytes its function wrote, per stream
    captured,     \* per unit: funcout and funcerr
    terminal,     \* the bytes that reached the files the process started with
    \* Script.http, from the end of the request on
    endResult,    \* what req.End() gave
    respState,    \* "ready" before http returns, "done" after
    respOut,      \* what http returned
    \* Script.applyScriptUpdates
    archive,      \* ts.archive
    disk,         \* the script file, ts.file, as its lines
    scriptUpdates, \* ts.scriptUpdates: name in the archive -> output
    updState,     \* "ready" before applyScriptUpdates, "done" after
    updOut,       \* how it ended
    \* Script.exec, Script.execBackground and the waits on their subprocesses
    xStdin,       \* ts.stdin
    ctxDone,      \* ts.ctxt is done
    procs,        \* the subprocesses started: [bg, state, sigs, stdin]
    waiter,       \* where the ctxWait on each subprocess is
    xBackground,  \* ts.background, as indexes into procs
    xPc,          \* where the script's goroutine is
    tdNext,       \* the entry of ts.background the teardown loop is at
    xLast,        \* the last command run and how its launch went
    \* Script.http on the arguments of one request
    aArgs,        \* the arguments of the http command
    aHeap,        \* the request under construction, at address 1
    aNext,        \* the argument applyArgsToReq's loop is at
    aOut,         \* "ok", or how applyArgToReq ended the loop
    aPc,          \* where http is: "apply", "check", "end", "done", "aborted"
    aIssued,      \* req.End() was called
    \* RunT: the work directories of the test units of one run
    wParams,      \* p.TestWork, the -testwork flag, whether p.WorkdirRoot was given
    wPc,          \* per unit: where its subtest function is
    wEnd,         \* per unit: how ts.run() ended, "pass" or "fail"
    wDir,         \* per unit: ts.workdir is "unset", "present" or "removed"
    refCount,     \* the units whose defer has not yet counted itself out
    wRoot,        \* testTempDir is "present" or "removed"
    wRemoves,     \* the calls of os.Remove(testTempDir) so far
    \* Script: the HTTP sub-engine
    heap,         \* the *gorequest.SuperAgent objects: address -> request
    httpClients,  \* ts.httpClients: name -> address
    hState,       \* "ok", or "fatal" / "panic" once the unit was aborted
    hOps,         \* http commands run so far
    hLast,        \* the last http command and what it did
    hPrev,        \* the http command before it
    \* parse, called on one line
    pLine,        \* the line given to parse
    pState,       \* "ready" before the call, "done" after it
    pArgs,        \* the arguments parse returned
    pFatal        \* parse called Fatalf("unterminated quoted argument")

procVars == <<windows>>

envVars == <<env, envMap, ePhase, eHook, eCd>>

runVars ==
    <<params, host, pc, lineno, log, mark, started, background, stopped, failed,
      lastLine, lastCall, finalWait, tdDrained, flushed, deferred, registered,
      ranDeferred, workdir, scriptUpd>>

httpVars == <<heap, httpClients, hState, hOps, hLast, hPrev>>

parseVars == <<pLine, pState, pArgs, pFatal>>

\* The variables of the specifications of single functions.
condVars == <<cName, cState, cOut>>

cacheVars == <<kDone, kResult, kLock, kProbes, kReturned, kPc, kProg, kEvals, kPath, kAnswer>>

callVars == <<osStdout, osStderr, callPc, oldstd, pipes, wrote, captured, terminal>>

respVars == <<endResult, respState, respOut>>

updVars == <<archive, disk, scriptUpdates, updState, updOut>>

execVars == <<xStdin, ctxDone, procs, waiter, xBackground, xPc, tdNext, xLast>>

argVars == <<aArgs, aHeap, aNext, aOut, aPc, aIssued>>

workVars == <<wParams, wPc, wEnd, wDir, refCount, wRoot, wRemoves>>

laterVars == <<condVars, cacheVars, callVars, respVars, updVars, execVars, argVars, workVars>>

vars == <<procVars, envVars, runVars, httpVars, parseVars, laterVars>>

\* The parts of the state a specification does not use stay at these values.
ProcIdle == windows = FALSE

HookIdle == eHook = <<>> /\ eCd = ""

EnvIdle == env = <<>> /\ envMap = EmptyMap /\ ePhase = "idle" /\ HookIdle

NoHttpOp ==
    [op |-> <<>>, name |-> <<>>, args |-> <<>>, known |-> FALSE,
     before |-> <<>>, issued |-> <<>>, out |-> "ok"]

HttpIdle ==
    /\ heap = EmptyMap
    /\ httpClients = EmptyMap
    /\ hState = "idle"
    /\ hOps = 0
    /\ hLast = NoHttpOp
    /\ hPrev = NoHttpOp

NoLine == [n |-> 0, text |-> <<>>, kind |-> "none", evals |-> <<>>]

NoCall ==
    [line |-> 0, mod |-> <<>>, neg |-> 0, verb |-> <<>>, args |-> <<>>, table |-> "",
     bg |-> FALSE, ok |-> TRUE]

\* No run is under way.
RunAtRest ==
    /\ pc = "idle"
    /\ lineno = 0
    /\ log = <<>>
    /\ mark = 0
    /\ started = FALSE
    /\ background = <<>>
    /\ stopped = FALSE
    /\ failed = <<>>
    /\ lastLine = NoLine
    /\ lastCall = NoCall
    /\ finalWait = FALSE
    /\ tdDrained = <<>>
    /\ flushed = <<>>
    /\ deferred = <<>>
    /\ registered = <<>>
    /\ ranDeferred = <<>>
    /\ workdir = "none"
    /\ scriptUpd = "none"

RunIdle ==
    /\ params = [verbose |-> FALSE, testWork |-> FALSE, hook |-> "nil",
                 updateScripts |-> FALSE]
    /\ host = [short |-> FALSE, net |-> FALSE, link |-> FALSE, symlink |-> FALSE,
               exec |-> FALSE]
    /\ RunAtRest

NoCondOut == [res |-> "", hooked |-> FALSE]

CondIdle == cName = <<>> /\ cState = "idle" /\ cOut = NoCondOut

CacheIdle ==
    /\ kDone = <<>>
    /\ kResult = <<>>
    /\ kLock = <<>>
    /\ kProbes = <<>>
    /\ kReturned = <<>>
    /\ kPc = <<>>
    /\ kProg = <<>>
    /\ kEvals = <<>>
    /\ kPath = <<>>
    /\ kAnswer = <<>>

CallIdle ==
    /\ osStdout = "" /\ osStderr = ""
    /\ callPc = <<>> /\ oldstd = <<>> /\ pipes = <<>>
    /\ wrote = <<>> /\ captured = <<>> /\ terminal = <<>>

RespIdle == endResult = <<>> /\ respState = "idle" /\ respOut = <<>>

UpdIdle ==
    /\ archive = <<>> /\ disk = <<>> /\ scriptUpdates = <<>>
    /\ updState = "idle" /\ updOut = "none"

ExecIdle ==
    /\ xStdin = "" /\ ctxDone = FALSE /\ procs = <<>> /\ waiter = <<>>
    /\ xBackground = <<>> /\ xPc = "idle" /\ tdNext = 0 /\ xLast = <<>>

ArgIdle ==
    /\ aArgs = <<>> /\ aHeap = <<>> /\ aNext = 0 /\ aOut = "" /\ aPc = "idle"
    /\ aIssued = FALSE

WorkIdle ==
    /\ wParams = <<>> /\ wPc = <<>> /\ wEnd = <<>> /\ wDir = <<>> /\ refCount = 0
    /\ wRoot = "" /\ wRemoves = 0

LaterIdle == CondIdle /\ CacheIdle /\ CallIdle /\ RespIdle /\ UpdIdle /\ ExecIdle /\ ArgIdle /\ WorkIdle

ParseIdle == pLine = <<>> /\ pState = "idle" /\ pArgs = <<>> /\ pFatal = FALSE

\* ------------------------------------------------------------- environment

\* envvarname: the key as the platform compares it (lower case on Windows,
\* unchanged elsewhere).
envvarname(win, key) == IF win THEN ToLower(key) ELSE key

Getenv(win, m, key) == MapGet(m, envvarname(win, key))

\* An Env.Getenv that returns the first entry of the key.
RECURSIVE EnvGetenvFirst(_, _, _)
EnvGetenvFirst(win, Vars, key) ==
    IF Vars = <<>> THEN <<>>
    ELSE IF /\ Index(Head(Vars), "=") >= 0
            /\ envvarname(win, Slice(Head(Vars), 0, Index(Head(Vars), "=")))
                  = envvarname(win, key)
    THEN Slice(Head(Vars), Index(Head(Vars), "=") + 1, Len(Head(Vars)))
    ELSE EnvGetenvFirst(win, Tail(Vars), key)

\* The loop of Env.Getenv from entry i down: strings.SplitN(e, "=", 2) has
\* two parts when e holds a "=", and then splits at the first one.
RECURSIVE EnvGetenvFrom(_, _, _, _)
EnvGetenvFrom(win, Vars, key, i) ==
    IF i < 1 THEN <<>>
    ELSE IF /\ Index(Vars[i], "=") >= 0
            /\ envvarname(win, Slice(Vars[i], 0, Index(Vars[i], "="))) = key
    THEN Slice(Vars[i], Index(Vars[i], "=") + 1, Len(Vars[i]))
    ELSE EnvGetenvFrom(win, Vars, key, i - 1)

\* Env.Getenv
EnvGetenv(win, Vars, key) ==
    EnvGetenvFrom(win, Vars, envvarname(win, key), Len(Vars))

\* The loop of setup that builds envMap from the list: entries without "="
\* are skipped, an entry is split at its first "=", later entries overwrite.
RECURSIVE ReplayEnv(_, _, _)
ReplayEnv(win, list, m) ==
    IF list = <<>> THEN m
    ELSE LET kv == Head(list)
             i == Index(kv, "=")
         IN  IF i >= 0
             THEN ReplayEnv(win, Tail(list),
                            MapPut(m, envvarname(win, Slice(kv, 0, i)),
                                   Slice(kv, i + 1, Len(kv))))
             ELSE ReplayEnv(win, Tail(list), m)

\* --------------------------------------------------------------- expansion

ShellSpecial == {"*", "#", "$", "@", "!", "?", "-"} \cup Digits

AlphaNum == LowerLetters \cup UpperLetters \cup Digits \cup {"_"}

\* The length of the run of alphanumerics s starts with (getShellName's scan).
RECURSIVE AlnumRun(_, _)
AlnumRun(s, i) ==
    IF i < Len(s) /\ At(s, i) \in AlphaNum THEN AlnumRun(s, i + 1) ELSE i

\* os.Expand(s, ts.Getenv) from position j on, for text without braces:
\* "$" followed by a special character or by a run of alphanumerics is
\* replaced by the variable's value, a "$" followed by neither and a final
\* "$" stay.
RECURSIVE ExpandFrom(_, _, _, _)
ExpandFrom(win, m, s, j) ==
    IF j >= Len(s) THEN <<>>
    ELSE IF At(s, j) = "$" /\ j + 1 < Len(s)
    THEN LET rest == Slice(s, j + 1, Len(s))
             w == IF Head(rest) \in ShellSpecial THEN 1 ELSE AlnumRun(rest, 0)
         IN  IF w = 0
             THEN <<"$">> \o ExpandFrom(win, m, s, j + 1)
             ELSE Getenv(win, m, Slice(rest, 0, w)) \o ExpandFrom(win, m, s, j + 1 + w)
    ELSE <<At(s, j)>> \o ExpandFrom(win, m, s, j + 1)

expand(win, m, s) == ExpandFrom(win, m, s, 0)

\* ------------------------------------------------------------------- parse

ArgSeparators == {" ", "\t", "\r", "#"}

\* A parse that expands the text between quotes as well.
QuotedTextExpanded(win, m, s) == expand(win, m, s)

\* The text between quotes goes into the argument as it stands
\* (arg += line[start:i]).
QuotedText(win, m, s) == s

\* A mis-step over the doubled quote: the chunk restarts after both quotes.
QuoteQuoteStartSkipsBoth(i) == i + 2

\* 'foo''bar': after the first quote of a doubled quote the next chunk starts
\* at the second one (start = i + 1), which is thereby kept as text.
QuoteQuoteStart(i) == i + 1

\* The loop of parse at index i.  start is -1 or the index where the current
\* chunk starts, arg the text of the current argument so far.  The result is
\* the argument list, or fatal when the line ends inside a quoted span.
RECURSIVE parseFrom(_, _, _, _, _, _, _, _)
\* A parse that takes the end of the line for the closing quote.
UnterminatedQuoteTolerated(args) == [args |-> args, fatal |-> FALSE]

\* The line ended inside quotes: Fatalf("unterminated quoted argument").
UnterminatedQuote(args) == [args |-> <<>>, fatal |-> TRUE]

parseFrom(win, m, line, i, args, arg, start, quoted) ==
    IF ~quoted /\ (i >= Len(line) \/ At(line, i) \in ArgSeparators)
    THEN LET flush == start >= 0
             args1 == IF flush
                      THEN Append(args, arg \o expand(win, m, Slice(line, start, i)))
                      ELSE args
         IN  IF i >= Len(line) \/ At(line, i) = "#"
             THEN [args |-> args1, fatal |-> FALSE]
             ELSE parseFrom(win, m, line, i + 1, args1,
                            IF flush THEN <<>> ELSE arg,
                            IF flush THEN -1 ELSE start, quoted)
    ELSE IF i >= Len(line)
    THEN UnterminatedQuote(args)
    ELSE IF At(line, i) = "'"
    THEN IF ~quoted
         THEN parseFrom(win, m, line, i + 1, args,
                        IF start >= 0
                        THEN arg \o expand(win, m, Slice(line, start, i))
                        ELSE arg,
                        i + 1, TRUE)
         ELSE IF i + 1 < Len(line) /\ At(line, i + 1) = "'"
         THEN parseFrom(win, m, line, i + 2, args,
                        arg \o QuotedText(win, m, Slice(line, start, i)),
                        QuoteQuoteStart(i), TRUE)
         ELSE parseFrom(win, m, line, i + 1, args,
                        arg \o QuotedText(win, m, Slice(line, start, i)), i + 1, FALSE)
    ELSE parseFrom(win, m, line, i + 1, args, arg,
                   IF start < 0 THEN i ELSE start, quoted)

parse(win, m, line) == parseFrom(win, m, line, 0, <<>>, <<>>, -1, FALSE)

\* ------------------------------------------------ parse on bounded lines

ParseAlphabet == {"V", "'", " ", "$", "#"}

ParseLines == UNION {[1..n -> ParseAlphabet] : n \in 0..MaxLineLen}

\* The environment parse expands against: V=b c.
ParseEnv == << <<"V", "=", "b", " ", "c">> >>

\* And one whose value holds a quote, a blank, a "#" and a tab.
ParseEnvMarks == << <<"V", "=", "'", " ", "#", "\t">> >>

ParseEnvs == {ParseEnv, ParseEnvMarks}

InitParse ==
    /\ ProcIdle
    /\ LaterIdle
    /\ RunIdle
    /\ HttpIdle
    /\ env \in ParseEnvs
    /\ envMap = ReplayEnv(windows, env, EmptyMap)
    /\ ePhase = "ready"
    /\ HookIdle
    /\ pLine \in ParseLines
    /\ pState = "ready"
    /\ pArgs = <<>>
    /\ pFatal = FALSE

\* args := ts.parse(line)
Parse ==
    /\ pState = "ready"
    /\ LET r == parse(windows, envMap, pLine)
       IN  /\ pArgs' = r.args
           /\ pFatal' = r.fatal
    /\ pState' = "done"
    /\ UNCHANGED <<pLine, procVars, envVars, runVars, httpVars, laterVars>>

NextParse == Parse

SpecParse == InitParse /\ [][NextParse]_vars

\* ------------------------------------------- the environment list and map

\* Entries the setup hook may append to Vars (it may write any strings).
EnvEntries ==
    { <<"A", "=">>, <<"a", "=", "A">>, <<"A">>, <<"=", "a">> }

\* Keys and values Setenv is called with.
EnvKeys == { <<"A">>, <<"a">>, <<>>, <<"A", "=", "a">> }

EnvValues == { <<>>, <<"a">>, <<"a", "=", "A">> }

\* The list setup starts Vars with, WORK= first; one entry stands for it.
StandardVars == << <<"A", "=", "a">> >>

\* Directories the hook may set Cd to; it starts as the work directory.
Dirs == {"work", "work/sub"}

InitEnv ==
    /\ windows \in BOOLEAN
    /\ env = <<>>
    /\ envMap = EmptyMap
    /\ ePhase = "new"
    /\ eHook = [Vars |-> StandardVars, Cd |-> "work"]
    /\ eCd = "work"
    /\ ParseIdle
    /\ RunIdle
    /\ HttpIdle
    /\ LaterIdle

\* The Setup hook appends an entry to env.Vars.
HookAppend(entry) ==
    /\ ePhase = "new"
    /\ Len(eHook.Vars) < MaxEnv
    /\ eHook' = [eHook EXCEPT !.Vars = Append(@, entry)]
    /\ UNCHANGED <<env, envMap, ePhase, eCd>>
    /\ UNCHANGED <<procVars, parseVars, runVars, httpVars, laterVars>>

\* The Setup hook calls Env.Setenv(key, value): a panic on an empty key and
\* on a key that holds a "=", else key=value is appended to Vars.
EnvSetenv(key, value) ==
    /\ ePhase = "new"
    /\ Len(eHook.Vars) < MaxEnv
    /\ IF key = <<>> \/ Index(key, "=") # -1
       THEN /\ ePhase' = "panic"
            /\ UNCHANGED eHook
       ELSE /\ eHook' = [eHook EXCEPT !.Vars = Append(@, key \o <<"=">> \o value)]
            /\ UNCHANGED ePhase
    /\ UNCHANGED <<env, envMap, eCd>>
    /\ UNCHANGED <<procVars, parseVars, runVars, httpVars, laterVars>>

\* The Setup hook sets env.Cd.
HookCd(dir) ==
    /\ ePhase = "new"
    /\ eHook' = [eHook EXCEPT !.Cd = dir]
    /\ UNCHANGED <<env, envMap, ePhase, eCd>>
    /\ UNCHANGED <<procVars, parseVars, runVars, httpVars, laterVars>>

\* The end of setup: ts.cd = env.Cd, ts.env = env.Vars, then envMap is built
\* from the list.
SetupEnv ==
    /\ ePhase = "new"
    /\ eCd' = eHook.Cd
    /\ env' = eHook.Vars
    /\ envMap' = ReplayEnv(windows, eHook.Vars, EmptyMap)
    /\ ePhase' = "ready"
    /\ UNCHANGED <<eHook, procVars, parseVars, runVars, httpVars, laterVars>>

\* Script.Setenv(key, value)
Setenv(key, value) ==
    /\ ePhase = "ready"
    /\ Len(env) < MaxEnv
    /\ env' = Append(env, key \o <<"=">> \o value)
    /\ envMap' = MapPut(envMap, envvarname(windows, key), value)
    /\ UNCHANGED <<ePhase, eHook, eCd, procVars, parseVars, runVars, httpVars, laterVars>>

NextEnv ==
    \/ \E entry \in EnvEntries : HookAppend(entry)
    \/ \E key \in EnvKeys, value \in EnvValues : EnvSetenv(key, value)
    \/ \E dir \in Dirs : HookCd(dir)
    \/ SetupEnv
    \/ \E key \in EnvKeys, value \in EnvValues : Setenv(key, value)

SpecEnv == InitEnv /\ [][NextEnv]_vars

\* ------------------------------------------------- the HTTP sub-engine

S_client == <<"c", "l", "i", "e", "n", "t">>
S_new == <<"n", "e", "w">>
S_mod == <<"m", "o", "d">>
S_del == <<"d", "e", "l">>
S_default == <<"d", "e", "f", "a", "u", "l", "t">>
S_http == <<"h", "t", "t", "p">>
S_GET == <<"G", "E", "T">>
S_POST == <<"P", "O", "S", "T">>

\* gorequest.New(): an empty request.
NewRequest ==
    [Method |-> <<>>, Url |-> <<>>, Header |-> EmptyMap, Query |-> <<>>,
     Data |-> <<>>, Files |-> <<>>, Auth |-> <<>>, Retry |-> <<>>]

\* The files ReadFile finds in the work directory: one file f holding "x".
WorkFiles == (<<"f">> :> <<"x">>)

\* strings.Fields: the maximal runs of non-space characters.
RECURSIVE FieldsFrom(_, _)
FieldsFrom(s, cur) ==
    IF s = <<>> THEN (IF cur = <<>> THEN <<>> ELSE <<cur>>)
    ELSE IF Head(s) \in WhiteSpace
    THEN (IF cur = <<>> THEN <<>> ELSE <<cur>>) \o FieldsFrom(Tail(s), <<>>)
    ELSE FieldsFrom(Tail(s), Append(cur, Head(s)))

Fields(s) == FieldsFrom(s, <<>>)

\* strings.Split(s, ":")
RECURSIVE SplitColonFrom(_, _)
SplitColonFrom(s, cur) ==
    IF s = <<>> THEN <<cur>>
    ELSE IF Head(s) = ":"
    THEN <<cur>> \o SplitColonFrom(Tail(s), <<>>)
    ELSE SplitColonFrom(Tail(s), Append(cur, Head(s)))

SplitColon(s) == SplitColonFrom(s, <<>>)

DigitValue(c) ==
    CASE c = "0" -> 0 [] c = "1" -> 1 [] c = "2" -> 2 [] c = "3" -> 3
      [] c = "4" -> 4 [] c = "5" -> 5 [] c = "6" -> 6 [] c = "7" -> 7
      [] c = "8" -> 8 [] c = "9" -> 9

RECURSIVE DigitsValue(_, _)
DigitsValue(s, acc) ==
    IF s = <<>> THEN acc ELSE DigitsValue(Tail(s), 10 * acc + DigitValue(Head(s)))

AllDigits(s) == s # <<>> /\ \A i \in 1..Len(s) : s[i] \in Digits

\* strconv.Atoi: an optional sign and decimal digits.
AtoiOk(s) ==
    IF s # <<>> /\ Head(s) \in {"+", "-"} THEN AllDigits(Tail(s)) ELSE AllDigits(s)

Atoi(s) ==
    IF Head(s) = "-" THEN 0 - DigitsValue(Tail(s), 0)
    ELSE IF Head(s) = "+" THEN DigitsValue(Tail(s), 0)
    ELSE DigitsValue(s, 0)

DurationUnits ==
    { <<"n", "s">>, <<"u", "s">>, <<"m", "s">>, <<"s">>, <<"m">>, <<"h">> }

\* time.ParseDuration for one whole number and a unit ("1s", "20ms"), or "0".
DurationOk(s) ==
    \/ s = <<"0">>
    \/ \E k \in 1..Len(s) :
        /\ AllDigits(SubSeq(s, 1, k))
        /\ SubSeq(s, k + 1, Len(s)) \in DurationUnits

Duration(s) ==
    IF s = <<"0">> THEN [n |-> 0, unit |-> <<"s">>]
    ELSE LET k == CHOOSE k \in 1..Len(s) :
                     /\ AllDigits(SubSeq(s, 1, k))
                     /\ SubSeq(s, k + 1, Len(s)) \in DurationUnits
         IN  [n |-> DigitsValue(SubSeq(s, 1, k), 0), unit |-> SubSeq(s, k + 1, Len(s))]

\* http.Header.Set's key: first letter upper case, the rest lower case.
CanonicalHeaderKey(k) ==
    [i \in 1..Len(k) |-> IF i = 1 THEN Upper(k[i]) ELSE Lower(k[i])]

\* The outcome of a step on a request: h the heap after it, out "ok", "err"
\* (an error returned), "fatal" (Fatalf) or "panic" (a run-time panic).
ReqStep(h, out) == [heap |-> h, out |-> out]

SetField(h, a, f, v) == [h EXCEPT ![a] = [@ EXCEPT ![f] = v]]

\* ts.ReadFile(val[1:]) for a value that starts with "@", else the value.
FileRefOk(val) == ~HasPrefix(val, <<"@">>) \/ Tail(val) \in DOMAIN WorkFiles

FileRef(val) == IF HasPrefix(val, <<"@">>) THEN WorkFiles[Tail(val)] ELSE val

\* The RETRY case: fewer than three fields, or a count, duration or code that
\* does not parse, is fatal.
RetryOk(val) ==
    LET flds == Fields(val)
    IN  /\ Len(flds) >= 3
        /\ AtoiOk(flds[1])
        /\ DurationOk(flds[2])
        /\ \A i \in 3..Len(flds) : AtoiOk(flds[i])

RetryOf(val) ==
    LET flds == Fields(val)
    IN  [count |-> Atoi(flds[1]), delay |-> Duration(flds[2]),
         codes |-> [i \in 1..(Len(flds) - 2) |-> Atoi(flds[i + 2])]]

\* applyArgToReq on the request at address a.
applyArgToReq(h, a, arg) ==
    LET i == Index(arg, "=")
        key == IF i >= 0 THEN Slice(arg, 0, i) ELSE arg
        val == IF i >= 0 THEN Slice(arg, i + 1, Len(arg)) ELSE <<>>
        K == ToUpper(key)
        flds == SplitColon(val)
    IN  CASE K \in { <<"U">>, <<"U", "R", "L">> } ->
                ReqStep(SetField(h, a, "Url", val), "ok")
          [] K \in { <<"T">>, <<"T", "Y", "P", "E">> } ->
                ReqStep(SetField(h, a, "Url", val), "ok")
          [] K \in { <<"Q">>, <<"Q", "U", "E", "R", "Y">> } ->
                IF FileRefOk(val)
                THEN ReqStep(SetField(h, a, "Query", Append(h[a].Query, FileRef(val))), "ok")
                ELSE ReqStep(h, "fatal")
          [] K \in { <<"R">>, <<"R", "E", "T", "R", "Y">> } ->
                IF RetryOk(val)
                THEN ReqStep(SetField(h, a, "Retry", <<RetryOf(val)>>), "ok")
                ELSE ReqStep(h, "fatal")
          [] K \in { <<"D">>, <<"D", "A", "T", "A">>, <<"S">>, <<"S", "E", "N", "D">> } ->
                IF FileRefOk(val)
                THEN ReqStep(SetField(h, a, "Data", Append(h[a].Data, FileRef(val))), "ok")
                ELSE ReqStep(h, "fatal")
          [] K \in { <<"F">>, <<"F", "I", "L", "E">> } ->
                IF TrimSpace(flds[1]) \in DOMAIN WorkFiles
                THEN ReqStep(SetField(h, a, "Files",
                        Append(h[a].Files,
                               <<WorkFiles[TrimSpace(flds[1])], TrimSpace(flds[1]),
                                 IF Len(flds) > 1 THEN TrimSpace(flds[2]) ELSE <<>> >>)), "ok")
                ELSE ReqStep(h, "fatal")
          [] K \in { <<"A">>, <<"A", "U", "T", "H">> } ->
                IF Len(flds) > 1
                THEN ReqStep(SetField(h, a, "Auth",
                        <<TrimSpace(flds[1]), TrimSpace(flds[2])>>), "ok")
                ELSE ReqStep(h, "panic")
          [] K \in { <<"H">>, <<"H", "E", "A", "D", "E", "R">> } ->
                IF Len(flds) > 1
                THEN ReqStep(SetField(h, a, "Header",
                        MapPut(h[a].Header, CanonicalHeaderKey(TrimSpace(flds[1])),
                               TrimSpace(flds[2]))), "ok")
                ELSE ReqStep(h, "panic")
          [] K \in { <<"M">>, <<"M", "E", "T", "H", "O", "D">> } ->
                ReqStep(SetField(h, a, "Method", K), "ok")
          [] K \in { S_GET, S_POST, <<"H", "E", "A", "D">>, <<"P", "U", "T">>,
                     <<"D", "E", "L", "E", "T", "E">>, <<"P", "A", "T", "C", "H">>,
                     <<"O", "P", "T", "I", "O", "N", "S">> } ->
                ReqStep(SetField(h, a, "Method", K), "ok")
          [] OTHER ->
                IF HasPrefix(key, S_http)
                THEN ReqStep(SetField(h, a, "Url", key), "ok")
                ELSE ReqStep(h, "err")

\* applyArgsToReq: the arguments in order, stopping at the first that fails.
RECURSIVE applyArgsToReq(_, _, _)
applyArgsToReq(h, a, args) ==
    IF args = <<>> THEN ReqStep(h, "ok")
    ELSE LET r == applyArgToReq(h, a, Head(args))
         IN  IF r.out = "ok" THEN applyArgsToReq(r.heap, a, Tail(args)) ELSE r

\* A new object's address.
FreshAddr(h) == CHOOSE a \in 1..(Cardinality(DOMAIN h) + 1) : a \notin DOMAIN h

Alloc(h, req) == [x \in (DOMAIN h) \cup {FreshAddr(h)} |-> IF x \in DOMAIN h THEN h[x] ELSE req]

\* The request is built on the template itself instead of on a copy.
CloneIsAlias(h, a) == [heap |-> h, addr |-> a]

\* req.Clone(): a new object with the template's settings.
Clone(h, a) == [heap |-> Alloc(h, h[a]), addr |-> FreshAddr(h)]

\* newReqFromArgs: a one-time request, method GET, then the arguments.
\* The result carries the address of the new request.
newReqFromArgs(h, args) ==
    LET a == FreshAddr(h)
        h1 == Alloc(h, [NewRequest EXCEPT !.Method = S_GET])
        r == applyArgsToReq(h1, a, args)
    IN  [heap |-> r.heap, out |-> r.out, addr |-> a]

\* reqFromArgs: a copy of the named client's template when the first argument
\* names one, with the remaining arguments applied; else a one-time request.
reqFromArgs(h, clients, args) ==
    IF args[1] \in DOMAIN clients
    THEN LET c == Clone(h, clients[args[1]])
             r == applyArgsToReq(c.heap, c.addr, Tail(args))
         IN  [heap |-> r.heap, out |-> r.out, addr |-> c.addr]
    ELSE newReqFromArgs(h, args)

\* Objects no client refers to are dropped.
Collect(h, clients) ==
    [a \in {x \in DOMAIN h : \E n \in DOMAIN clients : clients[n] = x} |-> h[a]]

\* The entry is left in the map.
MapDeleteKeeps(m, k) == m

\* delete(m, k)
MapDelete(m, k) == [x \in (DOMAIN m) \ {k} |-> m[x]]

\* What the state becomes after a step that ended with out.
StateAfter(out) == IF out = "ok" THEN "ok" ELSE IF out = "panic" THEN "panic" ELSE "fatal"

TemplateOf(h, clients, name) ==
    IF name \in DOMAIN clients THEN <<h[clients[name]]>> ELSE <<>>

\* `http client args...`: manageHttpClient(args), then ts.Check(err).
ManageHttpClient(args) ==
    /\ hState = "ok"
    /\ hOps < MaxHttpOps
    /\ LET key == IF Len(args) >= 1 THEN args[1] ELSE <<>>
           name == IF Len(args) >= 2 THEN args[2] ELSE S_default
           rest == IF Len(args) >= 2 THEN SubSeq(args, 3, Len(args)) ELSE <<>>
           known == name \in DOMAIN httpClients
           res ==
               IF Len(args) < 1 THEN [heap |-> heap, clients |-> httpClients, out |-> "fatal"]
               ELSE IF key = S_new
               THEN LET r == newReqFromArgs(heap, rest)
                    IN  IF r.out = "ok"
                        THEN [heap |-> r.heap, clients |-> MapPut(httpClients, name, r.addr),
                              out |-> "ok"]
                        ELSE [heap |-> r.heap, clients |-> httpClients, out |-> r.out]
               ELSE IF key = S_mod
               THEN IF ~known
                    THEN [heap |-> heap, clients |-> httpClients, out |-> "fatal"]
                    ELSE LET r == applyArgsToReq(heap, httpClients[name], rest)
                         IN  [heap |-> r.heap, clients |-> httpClients, out |-> r.out]
               ELSE IF key = S_del
               THEN IF ~known
                    THEN [heap |-> heap, clients |-> httpClients, out |-> "fatal"]
                    ELSE [heap |-> heap, clients |-> MapDelete(httpClients, name), out |-> "ok"]
               ELSE [heap |-> heap, clients |-> httpClients, out |-> "fatal"]
       IN  /\ httpClients' = res.clients
           /\ heap' = Collect(res.heap, res.clients)
           /\ hState' = StateAfter(res.out)
           /\ hLast' = [op |-> IF key \in {S_new, S_mod, S_del} THEN key ELSE <<>>,
                        name |-> name, args |-> rest, known |-> known,
                        before |-> TemplateOf(heap, httpClients, name),
                        issued |-> <<>>, out |-> res.out]
    /\ hPrev' = hLast
    /\ hOps' = hOps + 1
    /\ UNCHANGED <<procVars, envVars, runVars, parseVars, laterVars>>

\* `http args...` with args[0] other than "client": the request is built,
\* ts.Check(err), and issued with End().
HttpRequest(args) ==
    /\ hState = "ok"
    /\ hOps < MaxHttpOps
    /\ Len(args) >= 1
    /\ args[1] # S_client
    /\ LET known == args[1] \in DOMAIN httpClients
           r == reqFromArgs(heap, httpClients, args)
       IN  /\ heap' = Collect(r.heap, httpClients)
           /\ hState' = StateAfter(r.out)
           /\ hLast' = [op |-> S_http, name |-> args[1],
                        args |-> IF known THEN Tail(args) ELSE args,
                        known |-> known,
                        before |-> TemplateOf(heap, httpClients, args[1]),
                        issued |-> IF r.out = "ok" THEN <<r.heap[r.addr]>> ELSE <<>>,
                        out |-> r.out]
    /\ hPrev' = hLast
    /\ hOps' = hOps + 1
    /\ UNCHANGED <<httpClients, procVars, envVars, runVars, parseVars, laterVars>>

\* The arguments the model's scripts give to http commands.
HttpArgs ==
    { <<"U", "=", "a">>,
      S_POST,
      <<"H", "=", "k", ":", "v">>,
      <<"D", "=", "x">>,
      <<"R", "=", "1", " ", "1", "s", " ", "5", "0", "0">>,
      <<"b", "a", "d">> }

HttpNames == { <<"a">>, <<"b">> }

HttpArgLists == { <<>> } \cup { <<x>> : x \in HttpArgs }

ClientCommands ==
    { <<>>, <<S_new>>, <<S_del>>, << <<"x">> >> }
    \cup { <<S_new, n>> \o l : n \in HttpNames, l \in HttpArgLists }
    \cup { <<S_mod, n>> \o l : n \in HttpNames, l \in HttpArgLists }
    \cup { <<S_del, n>> : n \in HttpNames }

RequestCommands ==
    { <<n>> \o l : n \in HttpNames \cup {S_default}, l \in HttpArgLists }
    \cup { <<x>> : x \in HttpArgs }

InitHttp ==
    /\ ProcIdle
    /\ LaterIdle
    /\ RunIdle
    /\ EnvIdle
    /\ ParseIdle
    /\ heap = EmptyMap
    /\ httpClients = EmptyMap
    /\ hState = "ok"
    /\ hOps = 0
    /\ hLast = NoHttpOp
    /\ hPrev = NoHttpOp

NextHttp ==
    \/ \E args \in ClientCommands : ManageHttpClient(args)
    \/ \E args \in RequestCommands : HttpRequest(args)

SpecHttp == InitHttp /\ [][NextHttp]_vars

\* ======================================================================
\* Script.run: the lines of one script, from setup to the flushed transcript
\* ======================================================================

S_bang == <<"!">>
S_quest == <<"?">>
S_amp == <<"&">>
S_exec == <<"e", "x", "e", "c">>
S_wait == <<"w", "a", "i", "t">>
S_stop == <<"s", "t", "o", "p">>
S_host == <<"h", "o", "s", "t">>
S_cmp == <<"c", "m", "p">>
S_short == <<"s", "h", "o", "r", "t">>
S_net == <<"n", "e", "t">>
S_link == <<"l", "i", "n", "k">>
S_symlink == <<"s", "y", "m", "l", "i", "n", "k">>
S_linux == <<"l", "i", "n", "u", "x">>
S_windows == <<"w", "i", "n", "d", "o", "w", "s">>
S_darwin == <<"d", "a", "r", "w", "i", "n">>
S_amd64 == <<"a", "m", "d", "6", "4">>
S_arm64 == <<"a", "r", "m", "6", "4">>
S_execColon == <<"e", "x", "e", "c", ":">>

\* Params.PhasePrefix and Params.CommentPrefix, as RunT defaults them.
PhasePrefix == <<"#">>

CommentPrefix == <<"~">>

\* runtime.GOOS and runtime.GOARCH of the build.
GOOS(win) == IF win THEN S_windows ELSE S_linux

GOARCH == S_amd64

KnownOS == {S_linux, S_windows, S_darwin}

KnownArch == {S_amd64, S_arm64}

\* The built-in command table, and the table the host adds (Params.Cmds).
scriptCmds == {S_exec, S_wait, S_stop, S_cmp}

HostCmds == {S_host, S_exec}

\* A lookup that asks the host's table first.
LookupHostFirst(verb) ==
    IF verb \in HostCmds THEN "host"
    ELSE IF verb \in scriptCmds THEN "builtin"
    ELSE "none"

\* cmd := scriptCmds[args[0]]; if cmd == nil { cmd = ts.params.Cmds[args[0]] }
Lookup(verb) ==
    IF verb \in scriptCmds THEN "builtin"
    ELSE IF verb \in HostCmds THEN "host"
    ELSE "none"

\* --- the transcript -----------------------------------------------------

Tok(k) == [k |-> k, n |-> 0]

NL == Tok("nl")

\* A FAIL line that does not say at which line.
FailTextNoLine(n) == << [k |-> "FAIL", n |-> 0], NL >>

\* "FAIL: <file>:<lineno>: <message>\n"
FailText(n) == << [k |-> "FAIL", n |-> n], NL >>

\* A rewind that truncates with -v as well.
rewindAlways(verbose, lg, mk) == SubSeq(lg, 1, mk)

\* rewind: ts.log.Truncate(ts.mark) unless verbose
rewind(verbose, lg, mk) == IF ~verbose THEN SubSeq(lg, 1, mk) ELSE lg

\* A markTime that does not write back what it cut off behind the mark.
markTimeCut(lg, mk, st) ==
    IF mk > 0 /\ st
    THEN SubSeq(lg, 1, mk - 1) \o <<Tok("time"), NL>>
    ELSE lg

\* markTime: the elapsed time goes in front of the newline that ends the
\* phase heading.
markTime(lg, mk, st) ==
    IF mk > 0 /\ st
    THEN SubSeq(lg, 1, mk - 1) \o <<Tok("time"), NL>> \o SubSeq(lg, mk + 1, Len(lg))
    ELSE lg

\* --- conditions ---------------------------------------------------------

BoolText(b) == IF b THEN "true" ELSE "false"

\* An answer of condition itself, and the answer of the hook.
Answer(res) == [res |-> res, hooked |-> FALSE]

HookAnswer(hook) == [res |-> hook, hooked |-> TRUE]

\* A condition that asks the hook, when there is one, before anything else.
conditionHookFirst(win, hst, hook, cond) ==
    IF hook # "nil" THEN HookAnswer(hook)
    ELSE IF cond = S_short THEN Answer(BoolText(hst.short))
    ELSE Answer("fatal")

\* ts.condition(cond), with whether params.Condition was called. res is
\* "true", "false", "err" (the hook's error) or "fatal"
\* (Fatalf("unknown condition")).
conditionCall(win, hst, hook, cond) ==
    IF cond = S_short THEN Answer(BoolText(hst.short))
    ELSE IF cond = S_net THEN Answer(BoolText(hst.net))
    ELSE IF cond = S_link THEN Answer(BoolText(hst.link))
    ELSE IF cond = S_symlink THEN Answer(BoolText(hst.symlink))
    ELSE IF cond \in {GOOS(win), GOARCH} THEN Answer("true")
    ELSE IF cond \in KnownArch \cup KnownOS THEN Answer("false")
    ELSE IF HasPrefix(cond, S_execColon) THEN Answer(BoolText(hst.exec))
    ELSE IF hook # "nil" THEN HookAnswer(hook)
    ELSE Answer("fatal")

condition(win, hst, hook, cond) == conditionCall(win, hst, hook, cond).res

\* A guard that skips the line whatever polarity was asked for.
GuardDisagreesIgnoresWant(ok, want) == ~ok

\* if ok != want { continue Script }
GuardDisagrees(ok, want) == ok # want

\* The [cond] prefixes of a line. evals lists the conditions evaluated, with
\* the polarity asked for and the answer.
RECURSIVE GuardsEager(_, _, _, _, _)
\* A guard loop that goes on evaluating behind a guard that is not satisfied.
GuardsEager(win, hst, hook, args, evals) ==
    IF HasPrefix(args[1], <<"[">>) /\ HasSuffix(args[1], <<"]">>)
    THEN LET cond0 == TrimSpace(Slice(args[1], 1, Len(args[1]) - 1))
             rest == Tail(args)
             want == ~HasPrefix(cond0, S_bang)
             cond == IF want THEN cond0 ELSE TrimSpace(Tail(cond0))
             c == condition(win, hst, hook, cond)
             evals1 == Append(evals, [cond |-> cond, want |-> want, ok |-> c = "true"])
         IN  IF rest = <<>>
             THEN [out |-> "fatal", by |-> "guard", args |-> rest, evals |-> evals]
             ELSE IF c \in {"fatal", "err"}
             THEN [out |-> "fatal", by |-> "condition", args |-> rest, evals |-> evals]
             ELSE IF (c = "true") # want
                     /\ GuardsEager(win, hst, hook, rest, evals1).out # "fatal"
             THEN [GuardsEager(win, hst, hook, rest, evals1) EXCEPT !.out = "skip"]
             ELSE GuardsEager(win, hst, hook, rest, evals1)
    ELSE [out |-> "go", by |-> "", args |-> args, evals |-> evals]

RECURSIVE Guards(_, _, _, _, _)

Guards(win, hst, hook, args, evals) ==
    IF HasPrefix(args[1], <<"[">>) /\ HasSuffix(args[1], <<"]">>)
    THEN LET cond0 == TrimSpace(Slice(args[1], 1, Len(args[1]) - 1))
             rest == Tail(args)
             want == ~HasPrefix(cond0, S_bang)
             cond == IF want THEN cond0 ELSE TrimSpace(Tail(cond0))
             c == condition(win, hst, hook, cond)
             evals1 == Append(evals, [cond |-> cond, want |-> want, ok |-> c = "true"])
         IN  IF rest = <<>>
             THEN [out |-> "fatal", by |-> "guard", args |-> rest, evals |-> evals]
             ELSE IF c \in {"fatal", "err"}
             THEN [out |-> "fatal", by |-> "condition", args |-> rest, evals |-> evals]
             ELSE IF GuardDisagrees(c = "true", want)
             THEN [out |-> "skip", by |-> "", args |-> rest, evals |-> evals1]
             ELSE Guards(win, hst, hook, rest, evals1)
    ELSE [out |-> "go", by |-> "", args |-> args, evals |-> evals]

\* --- modifiers ----------------------------------------------------------

\* A run that takes ? for !.
NegOfQuestIsBang(tok) == IF tok \in {S_bang, S_quest} THEN 1 ELSE 0

\* neg: 1 after "!", -1 after "?", else 0
NegOf(tok) == IF tok = S_bang THEN 1 ELSE IF tok = S_quest THEN -1 ELSE 0

\* A run that leaves the modifier in front of the verb.
ModifierKept(args) ==
    [neg |-> NegOf(args[1]), mod |-> IF args[1] \in {S_bang, S_quest} THEN args[1] ELSE <<>>,
     args |-> args]

\* The modifier in front of the verb.
Modifier(args) ==
    IF args[1] \in {S_bang, S_quest}
    THEN [neg |-> NegOf(args[1]), mod |-> args[1], args |-> Tail(args)]
    ELSE [neg |-> NegOf(args[1]), mod |-> <<>>, args |-> args]

\* --- command handlers ---------------------------------------------------

\* What a handler makes of the observed outcome: with neg = 0 a failure
\* fails the test, with neg > 0 a success does, with neg < 0 neither.
HandlerFails(neg, ok) == (neg = 0 /\ ~ok) \/ (neg > 0 /\ ok)

IsBackground(rest) == rest # <<>> /\ rest[Len(rest)] = S_amp

\* exec: in the foreground the outcome is judged at once; with a trailing &
\* the process joins the active list with the line's expectation.
cmdExec(neg, rest, bg, ok) ==
    IF IsBackground(rest)
    THEN [fails |-> FALSE, ok |-> TRUE, background |-> Append(bg, [neg |-> neg]),
          stopped |-> FALSE, recorded |-> FALSE]
    ELSE [fails |-> HandlerFails(neg, ok), ok |-> ok, background |-> bg,
          stopped |-> FALSE, recorded |-> FALSE]

\* A process of the active list ended against its expectation.
Mismatch(bg, outs) == \E i \in 1..Len(bg) : HandlerFails(bg[i].neg, outs[i])

\* wait: every process is awaited, a mismatch is a command failure, and every
\* entry leaves the active list.
cmdWait(bg, outs) ==
    [fails |-> Mismatch(bg, outs), ok |-> ~Mismatch(bg, outs), background |-> <<>>,
     stopped |-> FALSE, recorded |-> FALSE]

\* stop
cmdStop(bg) == [fails |-> FALSE, ok |-> TRUE, background |-> bg, stopped |-> TRUE, recorded |-> FALSE]

\* A command of the host's table, judged like a foreground command.
cmdHost(neg, bg, ok) ==
    [fails |-> HandlerFails(neg, ok), ok |-> ok, background |-> bg, stopped |-> FALSE, recorded |-> FALSE]

\* cmp stdout f, f a file of the script's archive; ok says the two are equal.
\* With UpdateScripts a difference is recorded for f and the command
\* succeeds; without, it fails. A negated cmp is not supported.
cmdCmp(neg, upd, bg, ok) ==
    IF neg # 0
    THEN [fails |-> TRUE, ok |-> ok, background |-> bg, stopped |-> FALSE,
          recorded |-> FALSE]
    ELSE [fails |-> ~ok /\ ~upd, ok |-> ok, background |-> bg, stopped |-> FALSE,
          recorded |-> ~ok /\ upd]

\* The host's command hands a cleanup to ts.Defer before it does its work;
\* the builtin commands of the model do not.
CallsDefer(table) == table = "host"

\* A chain that runs what was there before, and then f.
ClosureOrderOldFirst(f, oldRan) == oldRan \o <<f>>

\* func() { defer old(); f() }: f runs, and old when f has returned.
ClosureOrder(f, oldRan) == <<f>> \o oldRan

\* ts.Defer(f): ts.deferred becomes a function that holds f and the old chain.
Defer(f, old) == <<f, old>>

\* ts.deferred(), as the order in which the functions run.
RECURSIVE RunChain(_)
RunChain(chain) ==
    IF chain = <<>> THEN <<>>
    ELSE ClosureOrder(chain[1], RunChain(chain[2]))

\* cmd(ts, neg, args[1:])
Handle(table, verb, neg, rest, upd, bg, ok, outs) ==
    IF table = "host" THEN cmdHost(neg, bg, ok)
    ELSE IF verb = S_cmp THEN cmdCmp(neg, upd, bg, ok)
    ELSE IF verb = S_exec THEN cmdExec(neg, rest, bg, ok)
    ELSE IF verb = S_wait THEN cmdWait(bg, outs)
    ELSE IF verb = S_stop THEN cmdStop(bg)
    ELSE cmdHost(neg, bg, ok)

\* --- one line -----------------------------------------------------------

\* A run that does not count its lines.
NextLinenoStuck(n) == n

\* ts.lineno++
NextLineno(n) == n + 1

\* What becomes of one line: kind is "phase", "comment", "blank", "skip",
\* "call" or "fatal"; by names the Fatalf; call is the handler invoked. The
\* line goes through the stages in the order of the loop's body, each stage
\* handing what it found to the next.
NoResult(bg) ==
    [kind |-> "", by |-> "", echo |-> FALSE, evals |-> <<>>,
     call |-> NoCall, background |-> bg, stopped |-> FALSE,
     defers |-> FALSE, records |-> FALSE]

\* The handler h of the command in table was called.
LineCalled(echoed, md, verb, rest, table, h) ==
    [echoed EXCEPT !.kind = IF h.fails THEN "fatal" ELSE "call",
                   !.by = IF h.fails THEN "handler" ELSE "",
                   !.call = [line |-> 0, mod |-> md.mod, neg |-> md.neg, verb |-> verb,
                             args |-> rest, table |-> table, bg |-> IsBackground(rest),
                             ok |-> h.ok],
                   !.background = h.background,
                   !.stopped = h.stopped,
                   !.defers = CallsDefer(table),
                   !.records = h.recorded]

\* The command was looked up: table is where it was found, or "none".
LineLookedUp(echoed, md, verb, rest, table, upd, bg, ok, outs) ==
    IF table = "none"
    THEN [echoed EXCEPT !.kind = "fatal", !.by = "unknown"]
    ELSE LineCalled(echoed, md, verb, rest, table,
                    Handle(table, verb, md.neg, rest, upd, bg, ok, outs))

\* The modifier md was taken off the line.
LineModified(echoed, md, upd, bg, ok, outs) ==
    IF md.args = <<>> THEN [echoed EXCEPT !.kind = "fatal", !.by = "modifier"]
    ELSE LineLookedUp(echoed, md, md.args[1], Tail(md.args), Lookup(md.args[1]),
                      upd, bg, ok, outs)

\* The guards g were evaluated; the line was echoed to the log before.
LineGuarded(echoed, g, upd, bg, ok, outs) ==
    IF g.out = "fatal" THEN [echoed EXCEPT !.kind = "fatal", !.by = g.by]
    ELSE IF g.out = "skip" THEN [echoed EXCEPT !.kind = "skip"]
    ELSE LineModified(echoed, Modifier(g.args), upd, bg, ok, outs)

\* A loop that echoes the lines without arguments as well.
LineParsedBlankEchoed(none, p, g, upd, bg, ok, outs) ==
    IF p.fatal THEN [none EXCEPT !.kind = "fatal", !.by = "parse"]
    ELSE IF p.args = <<>> THEN [none EXCEPT !.kind = "blank", !.echo = TRUE]
    ELSE LineGuarded([none EXCEPT !.echo = TRUE, !.evals = g.evals], g, upd, bg, ok,
                     outs)

\* The line was parsed into p.
LineParsed(none, p, g, upd, bg, ok, outs) ==
    IF p.fatal THEN [none EXCEPT !.kind = "fatal", !.by = "parse"]
    ELSE IF p.args = <<>> THEN [none EXCEPT !.kind = "blank"]
    ELSE LineGuarded([none EXCEPT !.echo = TRUE, !.evals = g.evals], g, upd, bg, ok,
                     outs)

\* The guards of the arguments p, when there are arguments.
GuardsOf(win, hst, hook, p) ==
    IF p.fatal \/ p.args = <<>>
    THEN [out |-> "go", by |-> "", args |-> <<>>, evals |-> <<>>]
    ELSE Guards(win, hst, hook, p.args, <<>>)

LineOf(win, hst, prm, p, bg, ok, outs) ==
    LineParsed(NoResult(bg), p, GuardsOf(win, hst, prm.hook, p), prm.updateScripts,
               bg, ok, outs)

LineResult(win, m, prm, hst, line, bg, ok, outs) ==
    IF HasPrefix(line, PhasePrefix) THEN [NoResult(bg) EXCEPT !.kind = "phase"]
    ELSE IF HasPrefix(line, CommentPrefix) THEN [NoResult(bg) EXCEPT !.kind = "comment"]
    ELSE LineOf(win, hst, prm, parse(win, m, line), bg, ok, outs)

\* The text of the lines a script is made of:
\*   exec p                 a command in the foreground
\*   ! exec p               expected to fail
\*   ? exec p               either outcome accepted
\*   exec p &               a background process
\*   ! exec p &             a background process expected to fail
\*   wait                   the explicit wait
\*   stop                   stop early
\*   host p                 a command of the host's table
\*   cmp p f                compare with a file of the archive
\*   [short] exec p         a guard
\*   [!short] ! exec p      a negated guard, then a modifier
\*   [linux] [x] exec p     two guards, the second one the hook's
\*   [short]                a guard and no command
\*   !                      a modifier and no command
\*   nope p                 no such command
\*   exec 'p                a quote left open
\*   # p                    a phase heading
\*   ~ exec 'p              a line comment
\*    # exec 'p             nothing before the inline comment
ScriptLines ==
    { <<"e", "x", "e", "c", " ", "p">>,
      <<"!", " ", "e", "x", "e", "c", " ", "p">>,
      <<"?", " ", "e", "x", "e", "c", " ", "p">>,
      <<"e", "x", "e", "c", " ", "p", " ", "&">>,
      <<"!", " ", "e", "x", "e", "c", " ", "p", " ", "&">>,
      <<"w", "a", "i", "t">>,
      <<"s", "t", "o", "p">>,
      <<"h", "o", "s", "t", " ", "p">>,
      <<"c", "m", "p", " ", "p", " ", "f">>,
      <<"[", "s", "h", "o", "r", "t", "]", " ", "e", "x", "e", "c", " ", "p">>,
      <<"[", "!", "s", "h", "o", "r", "t", "]", " ", "!", " ", "e", "x", "e", "c", " ", "p">>,
      <<"[", "l", "i", "n", "u", "x", "]", " ", "[", "x", "]", " ", "e", "x", "e", "c", " ", "p">>,
      <<"[", "s", "h", "o", "r", "t", "]">>,
      <<"!">>,
      <<"n", "o", "p", "e", " ", "p">>,
      <<"e", "x", "e", "c", " ", "'", "p">>,
      <<"#", " ", "p">>,
      <<"~", " ", "e", "x", "e", "c", " ", "'", "p">>,
      <<" ", "#", " ", "e", "x", "e", "c", " ", "'", "p">> }

\* The variables setup leaves in ts.env.
RunEnv == << <<"W", "O", "R", "K", "=", "w">>, <<"e", "x", "e", "=">> >>

\* What the processes of the active list exit with.
Outcomes(bg) == [1..Len(bg) -> BOOLEAN]

\* --- the steps of run ---------------------------------------------------

\* The configurations of a run: every one without UpdateScripts, and with
\* UpdateScripts the plain one, verbose or not.
RunParams ==
    [verbose : BOOLEAN, testWork : BOOLEAN, hook : {"nil", "true", "false", "err"},
     updateScripts : {FALSE}]
    \cup [verbose : BOOLEAN, testWork : {FALSE}, hook : {"nil"}, updateScripts : {TRUE}]

InitRun ==
    /\ ProcIdle
    /\ LaterIdle
    /\ EnvIdle
    /\ HttpIdle
    /\ ParseIdle
    /\ params \in RunParams
    /\ host \in [short : BOOLEAN, net : {TRUE}, link : {TRUE}, symlink : {TRUE},
                 exec : {TRUE}]
    /\ pc = "setup"
    /\ lineno = 0
    /\ log = <<>>
    /\ mark = 0
    /\ started = FALSE
    /\ background = <<>>
    /\ stopped = FALSE
    /\ failed = <<>>
    /\ lastLine = NoLine
    /\ lastCall = NoCall
    /\ finalWait = FALSE
    /\ tdDrained = <<>>
    /\ flushed = <<>>
    /\ deferred = <<>>
    /\ registered = <<>>
    /\ ranDeferred = <<>>
    /\ workdir = "none"
    /\ scriptUpd = "none"

\* What setup comes to: "ok"; "mkdir", the work directory cannot be made; or
\* "hook", params.Setup returns an error.
SetupOutcomes(prm) == {"ok", "mkdir"} \cup (IF prm.hook # "nil" THEN {"hook"} ELSE {})

\* The host that supplies a Condition hook supplies a Setup hook as well, and
\* that one calls env.Defer with a cleanup, numbered 0.
SetupDefers(prm, outcome) == prm.hook # "nil" /\ outcome # "mkdir"

\* ts.setup(), then the environment at the head of the log with -v or
\* -testwork. A failed Check is a Fatalf before applyScriptUpdates is deferred.
Setup(outcome) ==
    /\ pc = "setup"
    /\ outcome \in SetupOutcomes(params)
    /\ workdir' = IF outcome = "mkdir" THEN workdir ELSE "present"
    /\ deferred' = IF SetupDefers(params, outcome) THEN Defer(0, deferred) ELSE deferred
    /\ registered' = IF SetupDefers(params, outcome)
                     THEN Append(registered, 0)
                     ELSE registered
    /\ IF outcome = "ok"
       THEN /\ env' = RunEnv
            /\ envMap' = ReplayEnv(windows, RunEnv, EmptyMap)
            /\ ePhase' = "ready"
            /\ IF params.testWork \/ params.verbose
               THEN /\ log' = log \o <<Tok("env"), NL, NL>>
                    /\ mark' = Len(log')
               ELSE UNCHANGED <<log, mark>>
            /\ pc' = "run"
            /\ UNCHANGED failed
       ELSE /\ log' = log \o FailText(lineno)
            /\ failed' = <<[by |-> "setup", line |-> lineno]>>
            /\ pc' = "d_deferred"
            /\ UNCHANGED <<env, envMap, ePhase, mark>>
    /\ UNCHANGED <<params, host, lineno, started, background, stopped, lastLine,
                   lastCall, finalWait, tdDrained, flushed, scriptUpd, ranDeferred>>
    /\ UNCHANGED <<eHook, eCd, procVars, httpVars, parseVars, laterVars>>

\* Where a Fatalf goes when only the defers of run before setup are in force.
AfterFatalfNoUpdates == "d_deferred"

\* defer ts.applyScriptUpdates() is in force from the start of the loop on:
\* a Fatalf in the loop or in the final wait unwinds into it first.
AfterFatalf == "d_updates"

\* A FailNow that comes back to its caller.
FailNowReturns(defers) == "run"

\* Fatalf: behind the FAIL line ts.t.FailNow() leaves the goroutine of the
\* test unit; nothing of run is executed any more but the defers in force.
FailNow(defers) == defers

\* One turn of the loop over the script's lines.
RunLineWith(n, r, line) ==
    LET rewound == IF Len(log) > mark
                   THEN markTime(rewind(params.verbose, log, mark), mark, started)
                   ELSE log
        echoed == IF r.echo THEN log \o <<Tok("echo"), NL>> ELSE log
    IN  /\ lineno' = n
        /\ lastLine' = [n |-> n, text |-> line, kind |-> r.kind, evals |-> r.evals]
        /\ lastCall' = IF r.call = NoCall THEN lastCall
                       ELSE [r.call EXCEPT !.line = n]
        /\ background' = r.background
        /\ stopped' = r.stopped
        /\ log' = IF r.kind = "phase" THEN rewound \o <<Tok("head"), NL>>
                  ELSE IF r.kind = "fatal" THEN echoed \o FailText(n)
                  ELSE echoed
        /\ mark' = IF r.kind = "phase" THEN Len(log') ELSE mark
        /\ started' = IF r.kind = "phase" THEN TRUE ELSE started
        /\ failed' = IF r.kind = "fatal"
                     THEN <<[by |-> r.by, line |-> n]>>
                     ELSE failed
        /\ pc' = IF r.kind = "fatal" THEN FailNow(AfterFatalf)
                 ELSE "run"
        /\ deferred' = IF r.defers THEN Defer(n, deferred) ELSE deferred
        /\ registered' = IF r.defers THEN Append(registered, n) ELSE registered
        /\ scriptUpd' = IF r.records THEN "recorded" ELSE scriptUpd

RunLineUpTo(max, line, ok, outs) ==
    /\ pc = "run"
    /\ ~stopped
    /\ lineno < max
    /\ RunLineWith(NextLineno(lineno),
                   LineResult(windows, envMap, params, host, line, background, ok, outs),
                   line)
    /\ UNCHANGED <<params, host, finalWait, tdDrained, flushed, ranDeferred, workdir>>
    /\ UNCHANGED <<procVars, envVars, httpVars, parseVars, laterVars>>

\* A script of Spec has up to MaxLines lines.
RunLine(line, ok, outs) == RunLineUpTo(MaxLines, line, ok, outs)

\* The loop is left, for want of lines or because a command stopped the
\* script: every background process is interrupted, then ts.cmdWait(0, nil).
FinalWait(outs) ==
    /\ pc = "run"
    /\ LET h == cmdWait(background, outs)
       IN  /\ background' = h.background
           /\ finalWait' = TRUE
           /\ IF h.fails
              THEN /\ log' = log \o FailText(lineno)
                   /\ failed' = <<[by |-> "finalwait", line |-> lineno]>>
                   /\ pc' = FailNow(AfterFatalf)
              ELSE /\ pc' = "verdict"
                   /\ UNCHANGED <<log, failed>>
    /\ UNCHANGED <<params, host, lineno, mark, started, stopped, lastLine,
                   lastCall, tdDrained, flushed, scriptUpd, deferred, registered, ranDeferred,
                   workdir>>
    /\ UNCHANGED <<procVars, envVars, httpVars, parseVars, laterVars>>

\* A run end that writes PASS after a stop as well.
PassTextAlways(stp, lg) == lg \o <<Tok("PASS"), NL>>

\* if !ts.stopped { fmt.Fprintf(&ts.log, "PASS\n") }
PassText(stp, lg) == IF ~stp THEN lg \o <<Tok("PASS"), NL>> ELSE lg

\* Final phase ended: rewind, markTime, and PASS unless the script stopped.
Verdict ==
    /\ pc = "verdict"
    /\ log' = PassText(stopped, markTime(rewind(params.verbose, log, mark), mark, started))
    /\ started' = FALSE
    /\ pc' = "d_updates"
    /\ UNCHANGED <<params, host, lineno, mark, background, stopped, failed,
                   lastLine, lastCall, finalWait, tdDrained, flushed, scriptUpd, deferred,
                   registered, ranDeferred, workdir>>
    /\ UNCHANGED <<procVars, envVars, httpVars, parseVars, laterVars>>

\* defer ts.applyScriptUpdates(): nothing is done when no command recorded
\* an update. Else the script file is written and "<file> updated" is
\* logged, or the write fails and t.Fatal fails the unit, which leaves the
\* log as it is.
ApplyScriptUpdates(written) ==
    /\ pc = "d_updates"
    /\ pc' = "d_deferred"
    /\ IF scriptUpd = "none"
       THEN /\ written
            /\ UNCHANGED <<log, scriptUpd>>
       ELSE IF written
       THEN /\ log' = log \o <<Tok("updated"), NL>>
            /\ scriptUpd' = "written"
       ELSE /\ scriptUpd' = "failed"
            /\ UNCHANGED log
    /\ UNCHANGED <<params, host, lineno, mark, started, background, stopped,
                   failed, lastLine, lastCall, finalWait, tdDrained, flushed, deferred,
                   registered, ranDeferred, workdir>>
    /\ UNCHANGED <<procVars, envVars, httpVars, parseVars, laterVars>>

\* defer func() { ts.deferred() }(): the chain is the empty function until a
\* command or the hook calls Defer.
RunDeferred ==
    /\ pc = "d_deferred"
    /\ pc' = "d_teardown"
    /\ ranDeferred' = RunChain(deferred)
    /\ UNCHANGED <<params, host, lineno, log, mark, started, background, stopped,
                   failed, lastLine, lastCall, finalWait, tdDrained, flushed, scriptUpd, deferred,
                   registered, workdir>>
    /\ UNCHANGED <<procVars, envVars, httpVars, parseVars, laterVars>>

\* A teardown that leaves the list as it found it.
BackgroundAfterTeardownKept(bg) == bg

\* ts.background = nil
BackgroundAfterTeardown(bg) == <<>>

\* A teardown that holds the processes to their expectations.
TeardownFailsOnMismatch(bg, outs) == Mismatch(bg, outs)

\* <-bg.wait: the teardown awaits each process and drops what it exited with.
TeardownFails(bg, outs) == FALSE

\* The first defer of run: interrupt and await what is still running, clear
\* the list, close the last phase's time and flush the log to t.Log.
Teardown(outs) ==
    /\ pc = "d_teardown"
    /\ tdDrained' = [i \in 1..Len(background) |->
                        [neg |-> background[i].neg, ok |-> outs[i]]]
    /\ background' = BackgroundAfterTeardown(background)
    /\ LET lg == markTime(log, mark, started)
       IN  /\ log' = IF TeardownFails(background, outs)
                     THEN lg \o FailText(lineno)
                     ELSE lg
           /\ flushed' = <<log'>>
    /\ failed' = IF TeardownFails(background, outs)
                 THEN <<[by |-> "teardown", line |-> lineno]>>
                 ELSE failed
    /\ started' = FALSE
    /\ pc' = "done"
    /\ UNCHANGED <<params, host, lineno, mark, stopped, lastLine, lastCall,
                   finalWait, deferred, registered, ranDeferred, workdir, scriptUpd>>
    /\ UNCHANGED <<procVars, envVars, httpVars, parseVars, laterVars>>

\* The defer of the function RunT gives to t.Run: the work directory goes,
\* unless -testwork keeps it.
RemoveWorkdir ==
    /\ pc = "done"
    /\ pc' = "exit"
    /\ workdir' = IF params.testWork THEN workdir ELSE "removed"
    /\ UNCHANGED <<params, host, lineno, log, mark, started, background, stopped,
                   failed, lastLine, lastCall, finalWait, tdDrained, flushed, scriptUpd, deferred,
                   registered, ranDeferred>>
    /\ UNCHANGED <<procVars, envVars, httpVars, parseVars, laterVars>>

Init == InitRun

Next ==
    \/ \E outcome \in {"ok", "mkdir", "hook"} : Setup(outcome)
    \/ \E line \in ScriptLines, ok \in BOOLEAN, outs \in Outcomes(background) :
          RunLine(line, ok, outs)
    \/ \E outs \in Outcomes(background) : FinalWait(outs)
    \/ Verdict
    \/ \E written \in BOOLEAN : ApplyScriptUpdates(written)
    \/ RunDeferred
    \/ \E outs \in Outcomes(background) : Teardown(outs)
    \/ RemoveWorkdir

Spec == Init /\ [][Next]_vars

\* ======================================================================
\* Script.condition, for every name
\* ======================================================================

\* The names condition is asked for: the standard ones, exec:p, and x and the
\* empty name, which are not standard.
CondNames ==
    { S_short, S_net, S_link, S_symlink, S_linux, S_windows, S_darwin, S_amd64,
      S_arm64, S_execColon \o <<"p">>, S_execColon, <<"x">>, <<>> }

InitCond ==
    /\ windows \in BOOLEAN
    /\ EnvIdle
    /\ HttpIdle
    /\ ParseIdle
    /\ RunAtRest
    /\ params \in [verbose : {FALSE}, testWork : {FALSE},
                   hook : {"nil", "true", "false", "err"},
                   updateScripts : {FALSE}]
    /\ host \in [short : BOOLEAN, net : BOOLEAN, link : BOOLEAN, symlink : BOOLEAN,
                 exec : BOOLEAN]
    /\ cName \in CondNames
    /\ cState = "ready"
    /\ cOut = NoCondOut
    /\ CacheIdle
    /\ CallIdle
    /\ RespIdle
    /\ UpdIdle
    /\ ExecIdle
    /\ ArgIdle
    /\ WorkIdle

\* ok, err := ts.condition(cond)
Condition ==
    /\ cState = "ready"
    /\ cOut' = conditionCall(windows, host, params.hook, cName)
    /\ cState' = "done"
    /\ UNCHANGED <<cName, procVars, envVars, runVars, httpVars, parseVars, cacheVars, callVars, respVars, updVars, execVars, argVars, workVars>>

NextCond == Condition

SpecCond == InitCond /\ [][NextCond]_vars

\* ======================================================================
\* execCache: exec:<prog> evaluated by test units running in parallel
\* ======================================================================

\* The test units (t.Parallel()) and the programs they ask for.
Units == {1, 2}

Progs == {<<"p">>, <<"q">>}

\* A cache each unit has for itself.
CacheKeyPerUnit(u, prog) == <<u, prog>>

\* execCache.Do(prog, ...): one package-level cache, keyed by the program.
CacheKey(u, prog) == prog

CacheKeys == Progs \cup (Units \X Progs)

\* A PATH, as the set of the programs that one of its directories holds.
Paths == SUBSET Progs

\* execpath.Look(prog, ts.Getenv): prog is searched for in the directories of
\* the PATH of the unit's environment.
Look(prog, path) == prog \in path

NoAnswer == [prog |-> <<>>, ok |-> FALSE, path |-> {}]

InitCache ==
    /\ ProcIdle
    /\ EnvIdle
    /\ HttpIdle
    /\ ParseIdle
    /\ RunIdle
    /\ CondIdle
    /\ CallIdle
    /\ RespIdle
    /\ UpdIdle
    /\ ExecIdle
    /\ ArgIdle
    /\ WorkIdle
    /\ kDone = [k \in CacheKeys |-> FALSE]
    /\ kResult = [k \in CacheKeys |-> FALSE]
    /\ kLock = [k \in CacheKeys |-> 0]
    /\ kProbes = [g \in Progs |-> 0]
    /\ kReturned = [g \in Progs |-> {}]
    /\ kPc = [u \in Units |-> "idle"]
    /\ kProg = [u \in Units |-> <<>>]
    /\ kEvals = [u \in Units |-> 0]
    /\ kPath \in [Units -> Paths]
    /\ kAnswer = [u \in Units |-> NoAnswer]

CacheRest == <<procVars, envVars, runVars, httpVars, parseVars, condVars, callVars, respVars, updVars, execVars, argVars, workVars>>

\* condition("exec:" + prog) calls execCache.Do: the entry is looked up or
\* made, and a finished entry is answered from without locking.
CacheDo(u, prog) ==
    /\ kPc[u] = "idle"
    /\ kEvals[u] < MaxEvals
    /\ kProg' = [kProg EXCEPT ![u] = prog]
    /\ kPc' = [kPc EXCEPT ![u] = IF kDone[CacheKey(u, prog)] THEN "return" ELSE "lock"]
    /\ UNCHANGED <<kDone, kResult, kLock, kProbes, kReturned, kEvals, kPath, kAnswer>>
    /\ UNCHANGED CacheRest

\* The entry's lock is taken; an entry finished meanwhile is not run again.
CacheLock(u) ==
    /\ kPc[u] = "lock"
    /\ LET k == CacheKey(u, kProg[u])
       IN  /\ kLock[k] = 0
           /\ IF kDone[k]
              THEN /\ kPc' = [kPc EXCEPT ![u] = "return"]
                   /\ UNCHANGED kLock
              ELSE /\ kPc' = [kPc EXCEPT ![u] = "probe"]
                   /\ kLock' = [kLock EXCEPT ![k] = u]
    /\ UNCHANGED <<kDone, kResult, kProbes, kReturned, kProg, kEvals, kPath, kAnswer>>
    /\ UNCHANGED CacheRest

\* Under the lock: execpath.Look(prog, ts.Getenv), err == nil is stored, the
\* entry is finished and the lock is given back.
CacheProbe(u, found) ==
    /\ kPc[u] = "probe"
    /\ LET k == CacheKey(u, kProg[u])
       IN  /\ kResult' = [kResult EXCEPT ![k] = found]
           /\ kDone' = [kDone EXCEPT ![k] = TRUE]
           /\ kLock' = [kLock EXCEPT ![k] = 0]
    /\ kProbes' = [kProbes EXCEPT ![kProg[u]] = @ + 1]
    /\ kPc' = [kPc EXCEPT ![u] = "return"]
    /\ UNCHANGED <<kReturned, kProg, kEvals, kPath, kAnswer>>
    /\ UNCHANGED CacheRest

\* return ok, nil
CacheReturn(u) ==
    /\ kPc[u] = "return"
    /\ kReturned' = [kReturned EXCEPT
                        ![kProg[u]] = @ \cup {kResult[CacheKey(u, kProg[u])]}]
    /\ kEvals' = [kEvals EXCEPT ![u] = @ + 1]
    /\ kAnswer' = [kAnswer EXCEPT ![u] = [prog |-> kProg[u],
                                          ok |-> kResult[CacheKey(u, kProg[u])],
                                          path |-> kPath[u]]]
    /\ kPc' = [kPc EXCEPT ![u] = "idle"]
    /\ UNCHANGED <<kDone, kResult, kLock, kProbes, kProg, kPath>>
    /\ UNCHANGED CacheRest

\* Between two lines of its script the unit sets PATH (env PATH=..., or
\* ts.Setenv from a registered function).
CacheSetPath(u, path) ==
    /\ kPc[u] = "idle"
    /\ path # kPath[u]
    /\ kPath' = [kPath EXCEPT ![u] = path]
    /\ UNCHANGED <<kDone, kResult, kLock, kProbes, kReturned, kPc, kProg, kEvals, kAnswer>>
    /\ UNCHANGED CacheRest

NextCache ==
    \/ \E u \in Units, prog \in Progs : CacheDo(u, prog)
    \/ \E u \in Units : CacheLock(u)
    \/ \E u \in Units : CacheProbe(u, Look(kProg[u], kPath[u]))
    \/ \E u \in Units : CacheReturn(u)
    \/ \E u \in Units, path \in Paths : CacheSetPath(u, path)

SpecCache == InitCache /\ [][NextCache]_vars

\* ======================================================================
\* Script.call, by test units that run in parallel
\* ======================================================================

\* One file of the process: the one it started with, or an end of a pipe.
OrigFile(stream) == [unit |-> 0, stream |-> stream, end |-> "orig"]

\* os.Pipe(): the read end and the write end, in the order it returns them.
Pipe(u, stream) ==
    <<[unit |-> u, stream |-> stream, end |-> "r"],
      [unit |-> u, stream |-> stream, end |-> "w"]>>

NoBytes == [out |-> <<>>, err |-> <<>>]

\* The k-th byte the function of unit u writes.
Byte(u, k) == [by |-> u, k |-> k]

\* A write of b to file: the terminal takes it from a file of the process, a
\* pipe from its write end; a write to a read end returns an error.
WriteTerminal(file, b, term) ==
    IF file.end = "orig"
    THEN [term EXCEPT ![file.stream] = Append(@, b)]
    ELSE term

WritePipes(file, b, pp) ==
    IF file.end = "w"
    THEN [pp EXCEPT ![file.unit][file.stream] = Append(@, b)]
    ELSE pp

\* What fn wrote so far, both streams.
Written(w) == Len(w.out) + Len(w.err)

InitCall ==
    /\ osStdout = OrigFile("out")
    /\ osStderr = OrigFile("err")
    /\ callPc = [u \in Units |-> "start"]
    /\ oldstd = [u \in Units |-> [out |-> OrigFile("out"), err |-> OrigFile("err")]]
    /\ pipes = [u \in Units |-> NoBytes]
    /\ wrote = [u \in Units |-> NoBytes]
    /\ captured = [u \in Units |-> NoBytes]
    /\ terminal = NoBytes
    /\ ProcIdle
    /\ EnvIdle
    /\ RunIdle
    /\ HttpIdle
    /\ ParseIdle
    /\ CondIdle
    /\ CacheIdle
    /\ RespIdle
    /\ UpdIdle
    /\ ExecIdle
    /\ ArgIdle
    /\ WorkIdle

CallRest == <<procVars, envVars, runVars, httpVars, parseVars, condVars, cacheVars, respVars, updVars, execVars, argVars, workVars>>

\* oldstdout := os.Stdout
CallSaveStdout(u) ==
    /\ callPc[u] = "start"
    /\ oldstd' = [oldstd EXCEPT ![u].out = osStdout]
    /\ callPc' = [callPc EXCEPT ![u] = "savedOut"]
    /\ UNCHANGED <<osStdout, osStderr, pipes, wrote, captured, terminal, CallRest>>

\* oldstderr := os.Stderr
CallSaveStderr(u) ==
    /\ callPc[u] = "savedOut"
    /\ oldstd' = [oldstd EXCEPT ![u].err = osStderr]
    /\ callPc' = [callPc EXCEPT ![u] = "saved"]
    /\ UNCHANGED <<osStdout, osStderr, pipes, wrote, captured, terminal, CallRest>>

\* stdout, outw, _ := os.Pipe(); os.Stdout = stdout
CallSetStdout(u) ==
    /\ callPc[u] = "saved"
    /\ osStdout' = Pipe(u, "out")[1]
    /\ callPc' = [callPc EXCEPT ![u] = "setOut"]
    /\ UNCHANGED <<osStderr, oldstd, pipes, wrote, captured, terminal, CallRest>>

\* stderr, errw, _ := os.Pipe(); os.Stderr = stderr
CallSetStderr(u) ==
    /\ callPc[u] = "setOut"
    /\ osStderr' = Pipe(u, "err")[1]
    /\ callPc' = [callPc EXCEPT ![u] = "fn"]
    /\ UNCHANGED <<osStdout, oldstd, pipes, wrote, captured, terminal, CallRest>>

\* fn writes one byte to os.Stdout or to os.Stderr, whatever file that is now.
FnWrite(u, stream) ==
    /\ callPc[u] = "fn"
    /\ Written(wrote[u]) < MaxWrites
    /\ LET b == Byte(u, Written(wrote[u]) + 1)
           file == IF stream = "out" THEN osStdout ELSE osStderr
       IN  /\ wrote' = [wrote EXCEPT ![u][stream] = Append(@, b)]
           /\ pipes' = WritePipes(file, b, pipes)
           /\ terminal' = WriteTerminal(file, b, terminal)
    /\ UNCHANGED <<osStdout, osStderr, callPc, oldstd, captured, CallRest>>

\* fn returns: done <- "done"
FnReturn(u) ==
    /\ callPc[u] = "fn"
    /\ callPc' = [callPc EXCEPT ![u] = "fnDone"]
    /\ UNCHANGED <<osStdout, osStderr, oldstd, pipes, wrote, captured, terminal, CallRest>>

\* fn calls ts.Fatalf (or ts.Check with an error): FAIL is logged and
\* t.FailNow ends the goroutine it is called on, which is the one call started
\* for fn; the send on done behind fn is never reached.
FnFatalf(u) ==
    /\ callPc[u] = "fn"
    /\ callPc' = [callPc EXCEPT ![u] = "fnGone"]
    /\ UNCHANGED <<osStdout, osStderr, oldstd, pipes, wrote, captured, terminal, CallRest>>

\* <-done; outw.Close(); errw.Close(); os.Stdout = oldstdout
CallRestoreStdout(u) ==
    /\ callPc[u] = "fnDone"
    /\ osStdout' = oldstd[u].out
    /\ callPc' = [callPc EXCEPT ![u] = "restoredOut"]
    /\ UNCHANGED <<osStderr, oldstd, pipes, wrote, captured, terminal, CallRest>>

\* os.Stderr = oldstderr
CallRestoreStderr(u) ==
    /\ callPc[u] = "restoredOut"
    /\ osStderr' = oldstd[u].err
    /\ callPc' = [callPc EXCEPT ![u] = "restored"]
    /\ UNCHANGED <<osStdout, oldstd, pipes, wrote, captured, terminal, CallRest>>

\* funcout := <-outC; funcerr := <-errC: with the write ends closed the two
\* copies end, and each gives what went through its pipe.
CallCollect(u) ==
    /\ callPc[u] = "restored"
    /\ captured' = [captured EXCEPT ![u] = pipes[u]]
    /\ callPc' = [callPc EXCEPT ![u] = "returned"]
    /\ UNCHANGED <<osStdout, osStderr, oldstd, pipes, wrote, terminal, CallRest>>

NextCall ==
    \/ \E u \in Units : CallSaveStdout(u)
    \/ \E u \in Units : CallSaveStderr(u)
    \/ \E u \in Units : CallSetStdout(u)
    \/ \E u \in Units : CallSetStderr(u)
    \/ \E u \in Units, stream \in {"out", "err"} : FnWrite(u, stream)
    \/ \E u \in Units : FnReturn(u)
    \/ \E u \in Units : FnFatalf(u)
    \/ \E u \in Units : CallRestoreStdout(u)
    \/ \E u \in Units : CallRestoreStderr(u)
    \/ \E u \in Units : CallCollect(u)

SpecCall == InitCall /\ [][NextCall]_vars

\* The steps of the call of unit u: the script's goroutine, and fn's.
CallStep(u) ==
    \/ CallSaveStdout(u)
    \/ CallSaveStderr(u)
    \/ CallSetStdout(u)
    \/ CallSetStderr(u)
    \/ \E stream \in {"out", "err"} : FnWrite(u, stream)
    \/ FnReturn(u)
    \/ FnFatalf(u)
    \/ CallRestoreStdout(u)
    \/ CallRestoreStderr(u)
    \/ CallCollect(u)

\* Every goroutine that can take a step is scheduled in the end, and fn ends.
SpecCallFair == SpecCall /\ \A u \in Units : WF_vars(CallStep(u))

\* ======================================================================
\* Script.http: what is made of the answer to a request
\* ======================================================================

\* strings.Contains
Contains(s, sub) ==
    \E i \in 0..(Len(s) - Len(sub)) : Slice(s, i, i + Len(sub)) = sub

\* The texts of this section are sequences of pieces: the fixed texts of the
\* code are one piece each, a body is one piece per character.
HTTP2_GOAWAY_CHECK == <<"http2: server sent GOAWAY and closed the connection">>

\* The errors a transport gives, by their text.
ErrTexts ==
    { <<"Get http://x: ">> \o HTTP2_GOAWAY_CHECK,
      HTTP2_GOAWAY_CHECK \o <<"; some requests may have been processed">>,
      <<"dial tcp: connection refused">> }

Statuses == {200, 302, 399, 400, 404, 499, 500, 503}

Bodies ==
    UNION { [1..n -> {"b", "\n"}] : n \in 0..MaxBodyLen }

\* What req.End() gives: with no error a response and its body; with an error
\* either no response at all (resp == nil) or the response as far as it came.
NoResponse == [isNil |-> TRUE, StatusCode |-> 0]

EndResults ==
    { [resp |-> [isNil |-> FALSE, StatusCode |-> st], body |-> b, errs |-> <<>>] :
        st \in Statuses, b \in Bodies }
    \cup
    { [resp |-> [isNil |-> FALSE, StatusCode |-> st], body |-> b, errs |-> <<t>>] :
        st \in Statuses, b \in Bodies, t \in ErrTexts }
    \cup
    { [resp |-> NoResponse, body |-> <<>>, errs |-> <<t>>] : t \in ErrTexts }

\* The body handed on as it came.
BodyAsIs(body) == body

\* body += "\n"
BodyLine(body) == body \o <<"\n">>

\* The character \b, as a piece.
Backspace == "BS"

InternalErrorHead == <<"Internal Error:\n">>

InternalWeirdrErrorHead == <<"Internal Weirdr Error:", Backspace>>

\* fmt.Errorf("...%v\n%s\n", errs, body), and the one without errs
ErrorText(head, errs, body) ==
    head \o (IF errs = <<>> THEN <<"[]">> ELSE <<"[">> \o errs[1] \o <<"]">>)
        \o <<"\n">> \o body \o <<"\n">>

BadRequestText(body) == <<"Bad Request:\n">> \o body \o <<"\n">>

NoHttpResult ==
    [stdout |-> <<>>, stderr |-> <<>>, status |-> 0, err |-> <<>>, panic |-> FALSE]

\* resp.StatusCode of a nil resp: the goroutine panics.
NilResponsePanic == [NoHttpResult EXCEPT !.panic = TRUE]

\* Script.http from `resp, body, errs := req.End()` on. err = <<>> is nil.
httpResult(end) ==
    LET body == BodyLine(end.body)
        failure(text) ==
            IF end.resp.isNil THEN NilResponsePanic
            ELSE [stdout |-> <<>>, stderr |-> body, status |-> end.resp.StatusCode,
                  err |-> text, panic |-> FALSE]
    IN  IF Len(end.errs) # 0 /\ ~Contains(end.errs[1], HTTP2_GOAWAY_CHECK)
        THEN failure(ErrorText(InternalWeirdrErrorHead, end.errs, body))
        ELSE IF Len(end.errs) # 0
        THEN failure(ErrorText(InternalErrorHead, end.errs, body))
        ELSE IF end.resp.StatusCode >= 500
        THEN failure(ErrorText(InternalErrorHead, end.errs, body))
        ELSE IF end.resp.StatusCode >= 400
        THEN failure(BadRequestText(body))
        ELSE [stdout |-> body, stderr |-> <<>>, status |-> end.resp.StatusCode,
              err |-> <<>>, panic |-> FALSE]

InitResp ==
    /\ endResult \in EndResults
    /\ respState = "ready"
    /\ respOut = NoHttpResult
    /\ ProcIdle
    /\ EnvIdle
    /\ RunIdle
    /\ HttpIdle
    /\ ParseIdle
    /\ CondIdle
    /\ CacheIdle
    /\ CallIdle
    /\ UpdIdle
    /\ ExecIdle
    /\ ArgIdle
    /\ WorkIdle

RespRest ==
    <<procVars, envVars, runVars, httpVars, parseVars, condVars, cacheVars, callVars, updVars, execVars, argVars, workVars>>

\* The request has ended, and http returns.
HttpReturn ==
    /\ respState = "ready"
    /\ respOut' = httpResult(endResult)
    /\ respState' = "done"
    /\ UNCHANGED <<endResult, RespRest>>

NextResp == HttpReturn

SpecResp == InitResp /\ [][NextResp]_vars

\* ======================================================================
\* Script.applyScriptUpdates and the archive it rewrites
\* ======================================================================

\* The archive format works on whole lines: a file's data, a recorded
\* output and the script file are sequences of lines, each line a string
\* without its newline.

\* The line that opens the file called name: "-- name --".
Marker(name) == <<"-", "-", " ">> \o name \o <<" ", "-", "-">>

IsMarker(line) ==
    /\ Len(line) >= 7
    /\ HasPrefix(line, <<"-", "-", " ">>)
    /\ HasSuffix(line, <<" ", "-", "-">>)
    /\ TrimSpace(Slice(line, 3, Len(line) - 3)) # <<>>

MarkerName(line) == TrimSpace(Slice(line, 3, Len(line) - 3))

\* txtar.NeedsQuote: some line of the data would be read as a marker.
NeedsQuote(data) == \E i \in 1..Len(data) : IsMarker(data[i])

\* txtar.Quote: every line gets ">" in front.
Quote(data) == [i \in 1..Len(data) |-> <<">">> \o data[i]]

\* txtar.Unquote: the ">" in front of every line goes.
Unquote(data) == [i \in 1..Len(data) |-> Tail(data[i])]

\* txtar.Format: the comment, then per file its marker and its data.
RECURSIVE FormatFiles(_)
FormatFiles(files) ==
    IF files = <<>> THEN <<>>
    ELSE <<Marker(Head(files).name)>> \o Head(files).data \o FormatFiles(Tail(files))

Format(arch) == arch.comment \o FormatFiles(arch.files)

\* txtar.Parse: lines before the first marker are the comment, a marker opens
\* a file, and any other line belongs to the file opened last.
RECURSIVE ParseArchiveLines(_, _)
ParseArchiveLines(lines, arch) ==
    IF lines = <<>> THEN arch
    ELSE LET l == Head(lines)
             n == Len(arch.files)
         IN  ParseArchiveLines(Tail(lines),
                 IF IsMarker(l)
                 THEN [arch EXCEPT !.files = Append(@, [name |-> MarkerName(l), data |-> <<>>])]
                 ELSE IF n = 0
                 THEN [arch EXCEPT !.comment = Append(@, l)]
                 ELSE [arch EXCEPT !.files[n].data = Append(@, l)])

ParseArchive(lines) == ParseArchiveLines(lines, [comment |-> <<>>, files |-> <<>>])

NameF == <<"f">>
NameG == <<"g">>
NameH == <<"h">>

\* The archive setup has read from the script file: files f and g.
Archive0 ==
    [comment |-> << <<"e", "x", "e", "c">> >>,
     files |-> << [name |-> NameF, data |-> << <<"a">> >>],
                  [name |-> NameG, data |-> << <<"b">>, <<"b">> >>] >>]

\* The lines an output is made of: a plain one, one that begins with ">",
\* and one that reads as a marker.
OutputLines == { <<"a">>, <<">", "a">>, Marker(NameG) }

Outputs == UNION { [1..n -> OutputLines] : n \in 0..MaxOutputLines }

\* ts.scriptUpdates as cmp may have left it: outputs recorded against f,
\* against g, and, by an error of cmp, against h, which the archive lacks.
UpdateMaps ==
    { u \in UNION { [S -> Outputs] : S \in SUBSET {NameF, NameG, NameH} } :
        NameH \in DOMAIN u => u[NameH] = << <<"a">> >> }

\* The orders in which `range` may go through a map with these keys.
RangeOrders(keys) ==
    { o \in [1..Cardinality(keys) -> keys] :
        \A i, j \in 1..Cardinality(keys) : o[i] = o[j] => i = j }

\* Every entry is taken for the one that is named.
MatchesAny(f, name) == TRUE

\* if f.Name != name { continue }
Matches(f, name) == f.name = name

\* A name that is in no entry is let through.
NotFoundNever(hits) == FALSE

\* if !found { panic("script update file not found") }
NotFound(hits) == hits = {}

\* The loop of applyScriptUpdates from the i-th key of the order on. bad are
\* the names for which txtar.Quote returns an error.
RECURSIVE applyFrom(_, _, _, _, _)
applyFrom(arch, updates, order, i, bad) ==
    IF i > Len(order) THEN [archive |-> arch, out |-> "loop"]
    ELSE LET name == order[i]
             content == updates[name]
             hits == { k \in 1..Len(arch.files) : Matches(arch.files[k], name) }
             data == IF NeedsQuote(content) THEN Quote(content) ELSE content
         IN  IF hits # {} /\ NeedsQuote(content) /\ name \in bad
             THEN [archive |-> arch, out |-> "fatal"]
             ELSE IF NotFound(hits)
             THEN [archive |-> arch, out |-> "panic"]
             ELSE applyFrom(
                      [arch EXCEPT !.files =
                          [k \in 1..Len(arch.files) |->
                              IF k \in hits THEN [arch.files[k] EXCEPT !.data = data]
                              ELSE arch.files[k]]],
                      updates, order, i + 1, bad)

\* applyScriptUpdates: nothing to do without updates; else the loop, and
\* after it the script file is written, which may fail before the file is
\* opened ("refused") or after it was truncated ("cut").
applyScriptUpdates(arch, file, updates, order, bad, write) ==
    IF Cardinality(DOMAIN updates) = 0
    THEN [archive |-> arch, disk |-> file, out |-> "none"]
    ELSE LET r == applyFrom(arch, updates, order, 1, bad)
         IN  IF r.out # "loop" THEN [archive |-> r.archive, disk |-> file, out |-> r.out]
             ELSE IF write = "ok"
             THEN [archive |-> r.archive, disk |-> Format(r.archive), out |-> "updated"]
             ELSE [archive |-> r.archive,
                   disk |-> IF write = "cut" THEN <<>> ELSE file,
                   out |-> "fatal"]

InitUpd ==
    /\ archive = Archive0
    /\ disk = Format(Archive0)
    /\ scriptUpdates \in UpdateMaps
    /\ updState = "ready"
    /\ updOut = "none"
    /\ ProcIdle
    /\ EnvIdle
    /\ RunIdle
    /\ HttpIdle
    /\ ParseIdle
    /\ CondIdle
    /\ CacheIdle
    /\ CallIdle
    /\ RespIdle
    /\ ExecIdle
    /\ ArgIdle
    /\ WorkIdle

UpdRest ==
    <<procVars, envVars, runVars, httpVars, parseVars, condVars, cacheVars, callVars,
      respVars, execVars, argVars, workVars>>

\* The deferred applyScriptUpdates runs, at the end of run.
UpdateAtRunEnd(order, bad, write) ==
    /\ updState = "ready"
    /\ order \in RangeOrders(DOMAIN scriptUpdates)
    /\ LET r == applyScriptUpdates(archive, disk, scriptUpdates, order, bad, write)
       IN  /\ archive' = r.archive
           /\ disk' = r.disk
           /\ updOut' = r.out
    /\ updState' = "done"
    /\ UNCHANGED <<scriptUpdates, UpdRest>>

NextUpd ==
    \E S \in SUBSET {NameF, NameG, NameH} :
        \E order \in RangeOrders(S), bad \in SUBSET {NameF, NameG},
           write \in {"ok", "refused", "cut"} :
            UpdateAtRunEnd(order, bad, write)

SpecUpd == InitUpd /\ [][NextUpd]_vars

\* ======================================================================
\* Script.run: the phases of a longer script and its log
\* ======================================================================

\* The lines of the scripts of SpecLog: a command, a phase heading, and the
\* lines without a command: an empty line, blanks, blanks and a comment, a
\* line comment.
LogLines ==
    { <<"e", "x", "e", "c", " ", "p">>,
      <<"#", " ", "p">>,
      <<>>,
      <<" ", "\t">>,
      <<" ", "#", " ", "'", "p">>,
      <<"~", " ", "'", "p">> }

\* A plain host, verbose or not, with and without -testwork.
InitLog ==
    /\ InitRun
    /\ params.hook = "nil"
    /\ ~params.updateScripts
    /\ host.short

RunLogLine(line, ok) == RunLineUpTo(MaxLogLines, line, ok, <<>>)

NextLog ==
    \/ \E outcome \in {"ok", "mkdir"} : Setup(outcome)
    \/ \E line \in LogLines, ok \in BOOLEAN : RunLogLine(line, ok)
    \/ FinalWait(<<>>)
    \/ Verdict
    \/ ApplyScriptUpdates(TRUE)
    \/ RunDeferred
    \/ Teardown(<<>>)
    \/ RemoveWorkdir

SpecLog == InitLog /\ [][NextLog]_vars

\* ======================================================================
\* Script.exec, Script.execBackground, ctxWait and interruptProcess
\* ======================================================================

\* What a script names as the command: a path, a bare name that the lookup
\* finds, a bare name that it does not find.
Commands == {"path", "found", "notfound"}

\* buildExecCmd: a bare name is looked up, and the lookup's error returned;
\* anything else is taken as it is.  TRUE when a command was built.
buildExecCmd(command) == command # "notfound"

\* An interruptProcess that goes for Kill at once.
interruptProcessKill(win, p) == [p EXCEPT !.sigs = @ \o <<"kill">>]

\* interruptProcess: p.Signal(os.Interrupt), and p.Kill() when Signal returns
\* an error: os.Interrupt is not implemented on Windows, and a process that
\* was waited for is finished.
interruptProcess(win, p) ==
    IF win \/ p.state = "reaped"
    THEN [p EXCEPT !.sigs = @ \o <<"interrupt failed", "kill">>]
    ELSE [p EXCEPT !.sigs = @ \o <<"interrupt">>]

NewProc(bg, in) == [bg |-> bg, state |-> "running", sigs |-> <<>>, stdin |-> in]

InitExec ==
    /\ windows \in BOOLEAN
    /\ xStdin = ""
    /\ ctxDone = FALSE
    /\ procs = <<>>
    /\ waiter = <<>>
    /\ xBackground = <<>>
    /\ xPc = "line"
    /\ tdNext = 0
    /\ xLast = <<>>
    /\ EnvIdle
    /\ RunIdle
    /\ HttpIdle
    /\ ParseIdle
    /\ CondIdle
    /\ CacheIdle
    /\ CallIdle
    /\ RespIdle
    /\ UpdIdle
    /\ ArgIdle
    /\ WorkIdle

ExecRest ==
    <<procVars, envVars, runVars, httpVars, parseVars, condVars, cacheVars, callVars,
      respVars, updVars, argVars, workVars>>

\* The stdin command: ts.stdin becomes the text given.
cmdStdin ==
    /\ xPc = "line"
    /\ xStdin' = "in"
    /\ xLast' = [kind |-> "stdin", outcome |-> "set", returned |-> TRUE]
    /\ UNCHANGED <<ctxDone, procs, waiter, xBackground, xPc, tdNext, ExecRest>>

\* Script.exec up to the wait: buildExecCmd, cmd.Stdin = ts.stdin, cmd.Start;
\* on an error of buildExecCmd it returns at once, on an error of Start it
\* clears ts.stdin and returns, otherwise it goes into ctxWait.
ExecStart(command, startOk) ==
    /\ xPc = "line"
    /\ Len(procs) < MaxProcs
    /\ IF ~buildExecCmd(command)
       THEN /\ xLast' = [kind |-> "exec", outcome |-> "lookup failed", returned |-> TRUE]
            /\ UNCHANGED <<xStdin, procs, waiter, xPc>>
       ELSE IF ~startOk
       THEN /\ xStdin' = ""
            /\ xLast' = [kind |-> "exec", outcome |-> "start failed", returned |-> TRUE]
            /\ UNCHANGED <<procs, waiter, xPc>>
       ELSE /\ procs' = Append(procs, NewProc(FALSE, xStdin))
            /\ waiter' = Append(waiter, "select")
            /\ xPc' = "exec"
            /\ xLast' = [kind |-> "exec", outcome |-> "started", returned |-> FALSE]
            /\ UNCHANGED xStdin
    /\ UNCHANGED <<ctxDone, xBackground, tdNext, ExecRest>>

\* Script.exec after ctxWait returned: ts.stdin = "", and the return.
ExecReturn ==
    /\ xPc = "exec"
    /\ waiter[Len(procs)] = "returned"
    /\ xStdin' = ""
    /\ xPc' = "line"
    /\ xLast' = [xLast EXCEPT !.returned = TRUE]
    /\ UNCHANGED <<ctxDone, procs, waiter, xBackground, tdNext, ExecRest>>

\* Script.execBackground, and what exec & does with a started command: the
\* command joins ts.background and a goroutine waits for it under ts.ctxt.
ExecBackground(command, startOk) ==
    /\ xPc = "line"
    /\ Len(procs) < MaxProcs
    /\ IF ~buildExecCmd(command)
       THEN /\ xLast' = [kind |-> "exec &", outcome |-> "lookup failed", returned |-> TRUE]
            /\ UNCHANGED <<xStdin, procs, waiter, xBackground>>
       ELSE IF ~startOk
       THEN /\ xStdin' = ""
            /\ xLast' = [kind |-> "exec &", outcome |-> "start failed", returned |-> TRUE]
            /\ UNCHANGED <<procs, waiter, xBackground>>
       ELSE /\ xStdin' = ""
            /\ procs' = Append(procs, NewProc(TRUE, xStdin))
            /\ waiter' = Append(waiter, "select")
            /\ xBackground' = Append(xBackground, Len(procs) + 1)
            /\ xLast' = [kind |-> "exec &", outcome |-> "started", returned |-> TRUE]
    /\ UNCHANGED <<ctxDone, xPc, tdNext, ExecRest>>

\* The cancellation context of the test unit fires.
CtxCancel ==
    /\ ~ctxDone
    /\ xPc # "done"
    /\ ctxDone' = TRUE
    /\ UNCHANGED <<xStdin, procs, waiter, xBackground, xPc, tdNext, xLast, ExecRest>>

\* A subprocess exits, of itself or because of a signal.
ProcExit(i) ==
    /\ procs[i].state = "running"
    /\ procs' = [procs EXCEPT ![i].state = "exited"]
    /\ UNCHANGED <<xStdin, ctxDone, waiter, xBackground, xPc, tdNext, xLast, ExecRest>>

\* ctxWait's goroutine: cmd.Wait returns and its error goes to errc.
CmdWait(i) ==
    /\ procs[i].state = "exited"
    /\ procs' = [procs EXCEPT ![i].state = "reaped"]
    /\ UNCHANGED <<xStdin, ctxDone, waiter, xBackground, xPc, tdNext, xLast, ExecRest>>

\* ctxWait's select takes the case err := <-errc and returns.
SelectErrc(i) ==
    /\ waiter[i] = "select"
    /\ procs[i].state = "reaped"
    /\ waiter' = [waiter EXCEPT ![i] = "returned"]
    /\ UNCHANGED <<xStdin, ctxDone, procs, xBackground, xPc, tdNext, xLast, ExecRest>>

\* ctxWait's select takes the case <-ctx.Done(): interruptProcess.
SelectDone(i) ==
    /\ waiter[i] = "select"
    /\ ctxDone
    /\ procs' = [procs EXCEPT ![i] = interruptProcess(windows, @)]
    /\ waiter' = [waiter EXCEPT ![i] = "signalled"]
    /\ UNCHANGED <<xStdin, ctxDone, xBackground, xPc, tdNext, xLast, ExecRest>>

\* ctxWait after interruptProcess: return <-errc.
ReturnErrc(i) ==
    /\ waiter[i] = "signalled"
    /\ procs[i].state = "reaped"
    /\ waiter' = [waiter EXCEPT ![i] = "returned"]
    /\ UNCHANGED <<xStdin, ctxDone, procs, xBackground, xPc, tdNext, xLast, ExecRest>>

\* The teardown of run begins: its first loop, over ts.background.
TeardownBegin ==
    /\ xPc = "line"
    /\ xPc' = "interrupt"
    /\ tdNext' = 1
    /\ UNCHANGED <<xStdin, ctxDone, procs, waiter, xBackground, xLast, ExecRest>>

\* One turn of the first loop: interruptProcess(bg.cmd.Process).
TeardownInterrupt ==
    /\ xPc = "interrupt"
    /\ IF tdNext <= Len(xBackground)
       THEN /\ procs' = [procs EXCEPT ![xBackground[tdNext]] = interruptProcess(windows, @)]
            /\ tdNext' = tdNext + 1
            /\ UNCHANGED xPc
       ELSE /\ xPc' = "drain"
            /\ UNCHANGED <<procs, tdNext>>
    /\ UNCHANGED <<xStdin, ctxDone, waiter, xBackground, xLast, ExecRest>>

\* The second loop: <-bg.wait for each, then ts.background = nil.
TeardownDrain ==
    /\ xPc = "drain"
    /\ \A k \in 1..Len(xBackground) : waiter[xBackground[k]] = "returned"
    /\ xBackground' = <<>>
    /\ xPc' = "done"
    /\ UNCHANGED <<xStdin, ctxDone, procs, waiter, tdNext, xLast, ExecRest>>

NextExec ==
    \/ cmdStdin
    \/ \E command \in Commands, startOk \in BOOLEAN : ExecStart(command, startOk)
    \/ ExecReturn
    \/ \E command \in Commands, startOk \in BOOLEAN : ExecBackground(command, startOk)
    \/ CtxCancel
    \/ \E i \in 1..Len(procs) : ProcExit(i)
    \/ \E i \in 1..Len(procs) : CmdWait(i)
    \/ \E i \in 1..Len(procs) : SelectErrc(i)
    \/ \E i \in 1..Len(procs) : SelectDone(i)
    \/ \E i \in 1..Len(procs) : ReturnErrc(i)
    \/ TeardownBegin
    \/ TeardownInterrupt
    \/ TeardownDrain

SpecExec == InitExec /\ [][NextExec]_vars

\* ======================================================================
\* Script.http: the arguments of one request
\* ======================================================================

\* The arguments a script gives to http: URLs, with and without a "=", in
\* either case; a scheme that is not http; the method key in several
\* spellings, bare verbs; retry specifications with no, one and two codes and
\* with parts that do not parse; an unknown key; the empty argument.
ArgInputs ==
    { <<"h", "t", "t", "p", ":", "x">>,
      <<"h", "t", "t", "p", ":", "x", "?", "a", "=", "b">>,
      <<"H", "T", "T", "P", ":", "x">>,
      <<"f", "t", "p", ":", "x">>,
      <<"x", "=", "y">>,
      <<>>,
      <<"M", "E", "T", "H", "O", "D", "=", "P", "U", "T">>,
      <<"m", "=", "P", "O", "S", "T">>,
      <<"M", "e", "t", "h", "o", "d", "=", "G", "E", "T">>,
      <<"P", "U", "T">>,
      <<"p", "o", "s", "t">>,
      <<"H", "E", "A", "D">>,
      <<"R", "E", "T", "R", "Y", "=", "3", " ", "1", "s">>,
      <<"r", "=", "3", " ", "1", "s", " ", "5", "0", "0">>,
      <<"R", "E", "T", "R", "Y", "=", "2", " ", "0", " ", "5", "0", "0", " ", "5", "0", "2">>,
      <<"R", "E", "T", "R", "Y", "=", "x", " ", "1", "s", " ", "5", "0", "0">>,
      <<"R", "E", "T", "R", "Y", "=", "3", " ", "1", "x", " ", "5", "0", "0">>,
      <<"R", "E", "T", "R", "Y", "=", "3", " ", "1", "s", " ", "5", "x">>,
      <<"R", "E", "T", "R", "Y", "=", "3">> }

InitArg ==
    /\ aArgs \in UNION {[1..n -> ArgInputs] : n \in 1..MaxHttpArgs}
    /\ aHeap = <<[NewRequest EXCEPT !.Method = S_GET]>>
    /\ aNext = 1
    /\ aOut = "ok"
    /\ aPc = "apply"
    /\ aIssued = FALSE
    /\ ProcIdle
    /\ EnvIdle
    /\ RunIdle
    /\ HttpIdle
    /\ ParseIdle
    /\ CondIdle
    /\ CacheIdle
    /\ CallIdle
    /\ RespIdle
    /\ UpdIdle
    /\ ExecIdle
    /\ WorkIdle

ArgRest ==
    <<procVars, envVars, runVars, httpVars, parseVars, condVars, cacheVars, callVars,
      respVars, updVars, execVars, workVars>>

\* One turn of applyArgsToReq's loop: applyArgToReq on the next argument; an
\* error ends the loop, a Fatalf or a panic ends the test unit; after the last
\* argument the request is returned.
ApplyArg ==
    /\ aPc = "apply"
    /\ LET r == applyArgToReq(aHeap, 1, aArgs[aNext])
       IN  /\ aHeap' = r.heap
           /\ aOut' = r.out
           /\ aNext' = aNext + 1
           /\ aPc' = IF r.out \in {"fatal", "panic"} THEN "aborted"
                     ELSE IF r.out = "err" \/ aNext = Len(aArgs) THEN "check"
                     ELSE "apply"
    /\ UNCHANGED <<aArgs, aIssued, ArgRest>>

\* http: ts.Check(err) on what reqFromArgs returned.
HttpCheck ==
    /\ aPc = "check"
    /\ aPc' = IF aOut = "err" THEN "aborted" ELSE "end"
    /\ UNCHANGED <<aArgs, aHeap, aNext, aOut, aIssued, ArgRest>>

\* http: req.End() issues the request.
HttpEnd ==
    /\ aPc = "end"
    /\ aIssued' = TRUE
    /\ aPc' = "done"
    /\ UNCHANGED <<aArgs, aHeap, aNext, aOut, ArgRest>>

NextArg ==
    \/ ApplyArg
    \/ HttpCheck
    \/ HttpEnd

SpecArg == InitArg /\ [][NextArg]_vars

\* ======================================================================
\* Script.run: guards and modifiers in front of a command
\* ======================================================================

\* The lines of the scripts of SpecLine:
\*   exec p a               a command and its arguments
\*   [short] ! exec p a     a guard, a modifier, a command
\*   [short] [short] ? exec p    two guards, a modifier, a command
\*   ! ! exec p             a second modifier
\*   ? [short] exec p       a guard behind the modifier
\*   !   and   ?            a modifier and nothing else
\*   [!short] [nope] exec p      an unknown condition behind a guard
\*   [short] [nope] exec p
\*   [!short] [short]       a guard and nothing behind it
\*   [short]
GuardedLines ==
    { <<"e", "x", "e", "c", " ", "p", " ", "a">>,
      <<"[", "s", "h", "o", "r", "t", "]", " ", "!", " ", "e", "x", "e", "c", " ", "p", " ", "a">>,
      <<"[", "s", "h", "o", "r", "t", "]", " ", "[", "s", "h", "o", "r", "t", "]", " ", "?", " ",
        "e", "x", "e", "c", " ", "p">>,
      <<"!", " ", "!", " ", "e", "x", "e", "c", " ", "p">>,
      <<"?", " ", "[", "s", "h", "o", "r", "t", "]", " ", "e", "x", "e", "c", " ", "p">>,
      <<"!">>,
      <<"?">>,
      <<"[", "!", "s", "h", "o", "r", "t", "]", " ", "[", "n", "o", "p", "e", "]", " ",
        "e", "x", "e", "c", " ", "p">>,
      <<"[", "s", "h", "o", "r", "t", "]", " ", "[", "n", "o", "p", "e", "]", " ",
        "e", "x", "e", "c", " ", "p">>,
      <<"[", "!", "s", "h", "o", "r", "t", "]", " ", "[", "s", "h", "o", "r", "t", "]">>,
      <<"[", "s", "h", "o", "r", "t", "]">> }

\* Every host, every answer of the Condition hook; no golden updates.
InitLine ==
    /\ InitRun
    /\ ~params.updateScripts
    /\ ~params.testWork

RunGuardedLine(line, ok) == RunLineUpTo(MaxLines, line, ok, <<>>)

NextLine ==
    \/ \E outcome \in {"ok", "mkdir"} : Setup(outcome)
    \/ \E line \in GuardedLines, ok \in BOOLEAN : RunGuardedLine(line, ok)
    \/ FinalWait(<<>>)
    \/ Verdict
    \/ ApplyScriptUpdates(TRUE)
    \/ RunDeferred
    \/ Teardown(<<>>)
    \/ RemoveWorkdir

SpecLine == InitLine /\ [][NextLine]_vars

\* ======================================================================
\* RunT: the work directories of the test units and their shared root
\* ======================================================================

\* RunT was called with these settings; flag is -testwork.
WorkParams == [testWork : BOOLEAN, flag : BOOLEAN, workdirRoot : BOOLEAN]

\* else { p.TestWork = true }: a WorkdirRoot implies TestWork.
paramDefaultsWork(p) == [p EXCEPT !.testWork = p.testWork \/ p.workdirRoot]

\* if p.TestWork || *testWork { return }
Retained(p) == p.testWork \/ p.flag

\* Every unit takes itself for the last one.
IsLastAlways(count) == TRUE

\* atomic.AddInt32(&refCount, -1) == 0
IsLast(count) == count = 0

\* os.Remove(dir) removes a directory that is empty and fails on another.
osRemove(dirs) == IF \A u \in DOMAIN dirs : dirs[u] # "present" THEN "removed" ELSE "present"

\* testTempDir is there, refCount := int32(len(files)), and one subtest per
\* file is started.
InitWork ==
    /\ ProcIdle
    /\ EnvIdle
    /\ HttpIdle
    /\ ParseIdle
    /\ RunIdle
    /\ CondIdle
    /\ CacheIdle
    /\ CallIdle
    /\ RespIdle
    /\ UpdIdle
    /\ ExecIdle
    /\ ArgIdle
    /\ \E p \in WorkParams : wParams = paramDefaultsWork(p)
    /\ \E n \in 1..MaxFiles :
          /\ wPc = [u \in 1..n |-> "parallel"]
          /\ wEnd = [u \in 1..n |-> ""]
          /\ wDir = [u \in 1..n |-> "unset"]
          /\ refCount = n
    /\ wRoot = "present"
    /\ wRemoves = 0

WorkRest ==
    <<procVars, envVars, runVars, httpVars, parseVars, condVars, cacheVars, callVars,
      respVars, updVars, execVars, argVars>>

\* ts.run() as far as setup: ts.workdir is made under testTempDir, or setup
\* fails the unit before there is a directory.
UnitSetup(u, ok) ==
    /\ wPc[u] = "parallel"
    /\ IF ok
       THEN /\ wDir' = [wDir EXCEPT ![u] = "present"]
            /\ wPc' = [wPc EXCEPT ![u] = "run"]
            /\ UNCHANGED wEnd
       ELSE /\ wEnd' = [wEnd EXCEPT ![u] = "fail"]
            /\ wPc' = [wPc EXCEPT ![u] = "defer"]
            /\ UNCHANGED wDir
    /\ UNCHANGED <<wParams, refCount, wRoot, wRemoves>>
    /\ UNCHANGED WorkRest

\* ts.run() comes back, or is left by FailNow: the defer of the subtest runs.
UnitEnd(u, end) ==
    /\ wPc[u] = "run"
    /\ wEnd' = [wEnd EXCEPT ![u] = end]
    /\ wPc' = [wPc EXCEPT ![u] = "defer"]
    /\ UNCHANGED <<wParams, wDir, refCount, wRoot, wRemoves>>
    /\ UNCHANGED WorkRest

\* if p.TestWork || *testWork { return }; removeAll(ts.workdir)
UnitRemoveAll(u) ==
    /\ wPc[u] = "defer"
    /\ IF Retained(wParams)
       THEN /\ wPc' = [wPc EXCEPT ![u] = "done"]
            /\ UNCHANGED wDir
       ELSE /\ wPc' = [wPc EXCEPT ![u] = "count"]
            /\ wDir' = [wDir EXCEPT ![u] = IF @ = "present" THEN "removed" ELSE @]
    /\ UNCHANGED <<wParams, wEnd, refCount, wRoot, wRemoves>>
    /\ UNCHANGED WorkRest

\* if atomic.AddInt32(&refCount, -1) == 0
UnitCount(u) ==
    /\ wPc[u] = "count"
    /\ refCount' = refCount - 1
    /\ wPc' = [wPc EXCEPT ![u] = IF IsLast(refCount') THEN "last" ELSE "done"]
    /\ UNCHANGED <<wParams, wEnd, wDir, wRoot, wRemoves>>
    /\ UNCHANGED WorkRest

\* os.Remove(testTempDir)
UnitRemoveRoot(u) ==
    /\ wPc[u] = "last"
    /\ wRoot' = IF wRoot = "present" THEN osRemove(wDir) ELSE wRoot
    /\ wRemoves' = wRemoves + 1
    /\ wPc' = [wPc EXCEPT ![u] = "done"]
    /\ UNCHANGED <<wParams, wEnd, wDir, refCount>>
    /\ UNCHANGED WorkRest

NextWork ==
    \/ \E u \in DOMAIN wPc, ok \in BOOLEAN : UnitSetup(u, ok)
    \/ \E u \in DOMAIN wPc, end \in {"pass", "fail"} : UnitEnd(u, end)
    \/ \E u \in DOMAIN wPc : UnitRemoveAll(u)
    \/ \E u \in DOMAIN wPc : UnitCount(u)
    \/ \E u \in DOMAIN wPc : UnitRemoveRoot(u)

SpecWork == InitWork /\ [][NextWork]_vars

\* ======================================================================
\* Claims
\* ======================================================================

\* ------------------------------------------------------------------ C9

RECURSIVE CountQuotes(_)
CountQuotes(s) ==
    IF s = <<>> THEN 0
    ELSE (IF Head(s) = "'" THEN 1 ELSE 0) + CountQuotes(Tail(s))

\* Position i (1-based) of s lies inside a quoted span: an odd number of
\* quotes precedes it.
InsideQuotes(s, i) == CountQuotes(SubSeq(s, 1, i - 1)) % 2 = 1

NoUnquotedHash(s) ==
    \A i \in 1..Len(s) : s[i] = "#" => InsideQuotes(s, i)

\* The contents of a span: every quote in it is half of a doubled quote.
RECURSIVE ValidSpanBody(_)
ValidSpanBody(b) ==
    IF b = <<>> THEN TRUE
    ELSE IF Head(b) = "'"
    THEN Len(b) >= 2 /\ b[2] = "'" /\ ValidSpanBody(SubSeq(b, 3, Len(b)))
    ELSE ValidSpanBody(Tail(b))

\* What a span's contents stand for: each doubled quote is one quote, every
\* other character is itself.
RECURSIVE SpanText(_)
SpanText(b) ==
    IF b = <<>> THEN <<>>
    ELSE IF Head(b) = "'"
    THEN <<"'">> \o SpanText(SubSeq(b, 3, Len(b)))
    ELSE <<Head(b)>> \o SpanText(Tail(b))

\* line[a] opens and line[b] closes a quoted span that holds a doubled quote.
IsDoubledSpan(line, a, b) ==
    /\ a < b
    /\ line[a] = "'"
    /\ line[b] = "'"
    /\ ~InsideQuotes(line, a)
    /\ NoUnquotedHash(SubSeq(line, 1, a - 1))
    /\ (a > 1 => line[a - 1] # "'")
    /\ (b < Len(line) => line[b + 1] # "'")
    /\ ValidSpanBody(SubSeq(line, a + 1, b - 1))
    /\ CountQuotes(SubSeq(line, a + 1, b - 1)) > 0

\* The argument the span belongs to, and the text of that argument up to the
\* end of the span: what precedes the span in its argument (as parse of the
\* prefix gives it), then the span's text, unexpanded.
SpanArgIndex(win, m, line, a) ==
    LET pre == SubSeq(line, 1, a - 1)
        n == Len(parse(win, m, pre).args)
    IN  IF pre # <<>> /\ pre[Len(pre)] \notin ArgSeparators THEN n ELSE n + 1

SpanArgPrefix(win, m, line, a, b) ==
    LET pre == SubSeq(line, 1, a - 1)
        pa == parse(win, m, pre).args
        before == IF pre # <<>> /\ pre[Len(pre)] \notin ArgSeparators
                  THEN pa[Len(pa)] ELSE <<>>
    IN  before \o SpanText(SubSeq(line, a + 1, b - 1))

\* C9: for every line parse accepts and every quoted span of it that holds a
\* doubled quote, the span's text with one quote per doubled quote, not
\* expanded, is part of exactly one argument, right after what precedes the
\* span in that argument.
C9_DoubledQuote ==
    (pState = "done" /\ ~pFatal) =>
        \A a, b \in 1..Len(pLine) :
            IsDoubledSpan(pLine, a, b) =>
                LET k == SpanArgIndex(windows, envMap, pLine, a)
                    want == SpanArgPrefix(windows, envMap, pLine, a, b)
                IN  /\ k \in 1..Len(pArgs)
                    /\ HasPrefix(pArgs[k], want)
                    /\ Len(pArgs) = k + Len(parse(windows, envMap,
                                       <<"V">> \o SubSeq(pLine, b + 1, Len(pLine))).args) - 1

\* A span holding a variable reference and a doubled quote was parsed.
C9_Witness ==
    /\ pState = "done"
    /\ pLine = <<"'", "$", "V", "'", "'", "'">>
    /\ pArgs = << <<"$", "V", "'">> >>

\* ------------------------------------------------------------------ C6

\* C6: after setup and after any Setenv calls, envMap is what replaying the
\* list env gives (each entry split at its first "=", the last value per
\* case-normalized key kept).
C6_MapIsReplayOfList ==
    ePhase = "ready" => envMap = ReplayEnv(windows, env, EmptyMap)

\* ------------------------------------------------------------------ C7

\* The request that the arguments give when applied to a copy of tmpl.
OverridesOn(tmpl, args) == applyArgsToReq((1 :> tmpl), 1, args).heap[1]

\* C7: a request through a known client leaves the stored template as it was
\* (whether the request was issued or its arguments were rejected), and a
\* later request through the same name is the template, as it was before the
\* earlier request, with its own arguments only.
C7_TemplateNotMutated ==
    (hLast.op = S_http /\ hLast.known) =>
        /\ TemplateOf(heap, httpClients, hLast.name) = hLast.before
        /\ (/\ hPrev.op = S_http
            /\ hPrev.known
            /\ hPrev.name = hLast.name
            /\ hLast.out = "ok")
           => hLast.issued = <<OverridesOn(hPrev.before[1], hLast.args)>>

\* Two requests in a row through one client, each with overrides of its own.
C7_Witness ==
    /\ hLast.op = S_http /\ hLast.known /\ hLast.out = "ok"
    /\ hPrev.op = S_http /\ hPrev.known /\ hPrev.out = "ok"
    /\ hPrev.name = hLast.name
    /\ hPrev.args # <<>>
    /\ hLast.args # <<>>
    /\ hPrev.args # hLast.args
    /\ hPrev.issued # hPrev.before
    /\ hLast.issued # hLast.before

\* ------------------------------------------------------------------ C8

\* A one-time request: method GET, then the arguments.
OneTimeRequest(args) == OverridesOn([NewRequest EXCEPT !.Method = S_GET], args)

\* C8: a name is in the registry only from a successful `new` to the next
\* `del`; `mod` and `del` of a name that is not in it end in a fatal error
\* and leave the registry as it was, and a request that names it is built
\* from nothing stored.
C8_UnknownClient ==
    [][ (hOps' = hOps + 1) =>
        LET op == hLast'.op
            name == hLast'.name
            unknown == name \notin DOMAIN httpClients
        IN  /\ (op = S_del /\ hLast'.out = "ok") => name \notin DOMAIN httpClients'
            /\ (op \in {S_mod, S_del} /\ unknown) =>
                  /\ hState' = "fatal"
                  /\ httpClients' = httpClients
                  /\ heap' = heap
            /\ (op = S_http /\ unknown) =>
                  /\ httpClients' = httpClients
                  /\ heap' = heap
                  /\ hLast'.before = <<>>
                  /\ hLast'.out = "ok" => hLast'.issued = <<OneTimeRequest(hLast'.args)>>
            /\ (op \in {S_mod, S_del, S_http} /\ hLast.op = S_del /\ hLast.out = "ok"
                  /\ hLast.name = name) => unknown
      ]_vars

\* A client was created, deleted, and then `mod` named it: a fatal error.
C8_Witness ==
    /\ hLast.op = S_mod
    /\ ~hLast.known
    /\ hState = "fatal"
    /\ hPrev.op = S_del
    /\ hPrev.out = "ok"
    /\ hPrev.name = hLast.name

\* ------------------------------------------------------------------ C1

\* The last command called is of the last line taken, and ran in the
\* foreground.
LastCallIsForeground ==
    /\ lastCall.line > 0
    /\ lastCall.line = lineno
    /\ ~lastCall.bg
    /\ lastCall.verb \in {S_exec, S_host}

\* The handler of the last command called failed the test.
FailedByLastCall ==
    /\ failed # <<>>
    /\ failed[1].by = "handler"
    /\ failed[1].line = lastCall.line

\* C1: for a command run in the foreground: with no modifier an observed
\* failure fails the test; after a bare ! an observed failure does not fail
\* it and an observed success does; after a bare ? neither outcome fails it.
C1_Modifiers ==
    LastCallIsForeground =>
        /\ (lastCall.mod = <<>> /\ ~lastCall.ok) => FailedByLastCall
        /\ (lastCall.mod = S_bang /\ ~lastCall.ok) => ~FailedByLastCall
        /\ (lastCall.mod = S_bang /\ lastCall.ok) => FailedByLastCall
        /\ lastCall.mod = S_quest => ~FailedByLastCall

HasTok(lg, k) == \E i \in 1..Len(lg) : lg[i].k = k

\* A command after ! failed on the second line and the run went on to PASS.
C1_Witness ==
    /\ LastCallIsForeground
    /\ lastCall.line = 2
    /\ lastCall.mod = S_bang
    /\ ~lastCall.ok
    /\ pc = "done"
    /\ failed = <<>>
    /\ HasTok(flushed[1], "PASS")

\* ------------------------------------------------------------------ C2

\* A guard of the last line was evaluated and disagreed with the polarity
\* asked for.
GuardDisagreed ==
    /\ lastLine.n > 0
    /\ \E i \in 1..Len(lastLine.evals) :
          lastLine.evals[i].ok # lastLine.evals[i].want

\* C2: after a line one of whose guards disagreed, no handler was called for
\* the line, the line recorded no FAIL (the only FAIL there can be is the one
\* of the wait after the loop), and the loop was left, if at all, only by its
\* normal end.
C2_GuardSkipsLine ==
    GuardDisagreed =>
        /\ lastCall.line # lastLine.n
        /\ (HasTok(log, "FAIL") => failed # <<>> /\ failed[1].by = "finalwait")
        /\ (failed # <<>> => failed[1].by = "finalwait")
        /\ (pc = "run" \/ finalWait)

\* The second guard of the second line disagreed, after a command was called
\* on the first line, and the run went on to PASS.
C2_Witness ==
    /\ GuardDisagreed
    /\ Len(lastLine.evals) = 2
    /\ lastLine.n = 2
    /\ lastCall.line = 1
    /\ pc = "done"
    /\ HasTok(flushed[1], "PASS")

\* ------------------------------------------------------------------ C3

\* A PASS or FAIL line is in the log.
VerdictWritten == HasTok(log, "PASS") \/ HasTok(log, "FAIL")

\* C3 as stated: once PASS or FAIL is written, the outstanding background
\* processes have been waited for.
C3_WaitBeforeVerdict == VerdictWritten => background = <<>>

\* C3: handlers are called in the order of the lines; the wait after the loop
\* comes after the last line taken and before PASS is written; and when a
\* Fatalf wrote FAIL first, the processes still running are awaited before the
\* transcript is flushed.
C3_OrderAndFinalWait ==
    [][ /\ (lastCall' # lastCall =>
               lastCall'.line > lastCall.line /\ lastCall'.line = lineno')
        /\ (finalWait => lineno' = lineno /\ lastCall' = lastCall)
        /\ (HasTok(log', "PASS") => finalWait /\ background = <<>>)
        /\ (flushed' # <<>> => background' = <<>>)
      ]_vars

\* Two lines called a handler each, the second launching a process the final
\* wait awaited, and PASS was flushed.
C3_Witness ==
    /\ pc = "done"
    /\ finalWait
    /\ lastCall.line = 2
    /\ lastCall.bg
    /\ HasTok(flushed[1], "PASS")

\* ------------------------------------------------------------------ C4

\* C4: the active list is empty after a wait command, after the wait that
\* follows the loop, and after the teardown.
C4_BackgroundEmpty ==
    /\ (lastCall.verb = S_wait /\ lastCall.line = lineno) => background = <<>>
    /\ finalWait => background = <<>>
    /\ pc = "done" => background = <<>>

\* A run failed with a process still running, and the teardown drained it.
C4_Witness ==
    /\ pc = "done"
    /\ failed # <<>>
    /\ tdDrained # <<>>
    /\ background = <<>>

\* ------------------------------------------------------------------ C5

\* C5 as stated: no failure comes from the processes still running when the
\* loop is left.
C5_RunEndNeverFails ==
    failed # <<>> => failed[1].by \notin {"finalwait", "teardown"}

FailCount(lg) == Cardinality({i \in 1..Len(lg) : lg[i].k = "FAIL"})

\* C5: the teardown's drain records no failure, whatever the processes it
\* awaits exit with.
C5_TeardownNeverFails ==
    [][ pc = "d_teardown" =>
            /\ failed' = failed
            /\ FailCount(log') = FailCount(log)
            /\ FailCount(flushed'[1]) = Len(failed)
      ]_vars

\* The teardown drained a process that exited against its expectation.
C5_Witness ==
    /\ pc = "done"
    /\ \E i \in 1..Len(tdDrained) : HandlerFails(tdDrained[i].neg, tdDrained[i].ok)
    /\ failed # <<>>
    /\ failed[1].by = "handler"

\* ----------------------------------------------------------------- C10

\* The line is handed to parse: it is neither a phase heading nor a line
\* comment.
ReachesParse(line) == ~HasPrefix(line, PhasePrefix) /\ ~HasPrefix(line, CommentPrefix)

\* Where the inline comment of the line starts: at the first # outside
\* quotes, or past the end.
CommentStart(line) ==
    LET hs == {i \in 1..Len(line) : line[i] = "#" /\ ~InsideQuotes(line, i)}
    IN  IF hs = {} THEN Len(line) + 1
        ELSE CHOOSE i \in hs : \A j \in hs : i <= j

\* A quoted span of the line is still open where the line, or its inline
\* comment, begins.
OpenQuoteAtEnd(line) == InsideQuotes(line, CommentStart(line))

\* C10: after a line handed to parse with a quoted span left open, the test
\* has failed in parse at that line, FAIL names the line, the loop is left,
\* and no handler was called for the line.
C10_UnterminatedQuoteAborts ==
    (lastLine.n > 0 /\ ReachesParse(lastLine.text) /\ OpenQuoteAtEnd(lastLine.text)) =>
        /\ failed = <<[by |-> "parse", line |-> lastLine.n]>>
        /\ \E i \in 1..Len(log) : log[i].k = "FAIL" /\ log[i].n = lastLine.n
        /\ lastCall.line < lastLine.n
        /\ pc \notin {"run", "verdict"}
        /\ ~finalWait

\* The second line left a quote open after the first called a handler, and
\* the run ended with no further call.
C10_Witness ==
    /\ lastLine.n = 2
    /\ ReachesParse(lastLine.text)
    /\ OpenQuoteAtEnd(lastLine.text)
    /\ lastCall.line = 1
    /\ pc = "done"

\* ----------------------------------------------------------------- C11

\* The tokens of a line after its guards and its modifier.
RECURSIVE AfterGuards(_)
AfterGuards(args) ==
    IF args # <<>> /\ HasPrefix(args[1], <<"[">>) /\ HasSuffix(args[1], <<"]">>)
    THEN AfterGuards(Tail(args))
    ELSE args

AfterModifier(args) ==
    IF args # <<>> /\ args[1] \in {S_bang, S_quest} THEN Tail(args) ELSE args

GuardCount(args) == Len(args) - Len(AfterGuards(args))

\* The tokens of the last line from its verb on, when the line got as far as
\* the lookup: it was parsed, every guard of it was evaluated and agreed, and
\* a verb is left after the modifier. Otherwise <<>>.
DispatchedTokens ==
    IF lastLine.n = 0 \/ ~ReachesParse(lastLine.text) \/ OpenQuoteAtEnd(lastLine.text)
    THEN <<>>
    ELSE LET args == parse(windows, envMap, lastLine.text).args
         IN  IF /\ Len(lastLine.evals) = GuardCount(args)
                /\ \A i \in 1..Len(lastLine.evals) :
                      lastLine.evals[i].ok = lastLine.evals[i].want
             THEN AfterModifier(AfterGuards(args))
             ELSE <<>>

\* C11: a verb of the builtin table is served by the builtin handler, also
\* when the host's table has the same name; a verb of the host's table only
\* is served by the host's handler; a verb of neither table is a Fatalf at
\* that line and no handler is called.
C11_LookupOrder ==
    DispatchedTokens # <<>> =>
        LET verb == DispatchedTokens[1] IN
        /\ verb \in scriptCmds =>
              /\ lastCall.line = lastLine.n
              /\ lastCall.verb = verb
              /\ lastCall.table = "builtin"
        /\ (verb \notin scriptCmds /\ verb \in HostCmds) =>
              /\ lastCall.line = lastLine.n
              /\ lastCall.verb = verb
              /\ lastCall.table = "host"
        /\ verb \notin scriptCmds \cup HostCmds =>
              /\ lastCall.line < lastLine.n
              /\ failed = <<[by |-> "unknown", line |-> lastLine.n]>>
              /\ pc \notin {"run", "verdict"}

\* A verb that both tables have was served, after a host command on the
\* first line.
C11_Witness ==
    /\ DispatchedTokens # <<>>
    /\ DispatchedTokens[1] \in scriptCmds \cap HostCmds
    /\ lastLine.n = 2
    /\ lastCall.line = 2
    /\ lastCall.table = "builtin"
    /\ pc = "done"

\* ----------------------------------------------------------------- C12

\* The names condition answers by itself, told from the text of the name.
StandardHostFact(name) == name \in {S_short, S_net, S_link, S_symlink}

CurrentPlatform(name) ==
    name = (IF windows THEN S_windows ELSE S_linux) \/ name = S_amd64

OtherPlatform(name) ==
    /\ ~CurrentPlatform(name)
    /\ name \in {S_linux, S_windows, S_darwin, S_amd64, S_arm64}

ExecProbe(name) == Len(name) >= 5 /\ SubSeq(name, 1, 5) = S_execColon

StandardName(name) ==
    StandardHostFact(name) \/ CurrentPlatform(name) \/ OtherPlatform(name)
        \/ ExecProbe(name)

\* C12: for a standard name the hook is not called and the answer is true or
\* false; a known platform other than the current one gives false; any other
\* name gives the hook's answer when there is a hook and the fatal
\* unknown-condition error when there is none.
C12_ConditionAndHook ==
    cState = "done" =>
        /\ StandardName(cName) => ~cOut.hooked /\ cOut.res \in {"true", "false"}
        /\ OtherPlatform(cName) => cOut.res = "false"
        /\ CurrentPlatform(cName) => cOut.res = "true"
        /\ (~StandardName(cName) /\ params.hook # "nil") =>
              cOut.hooked /\ cOut.res = params.hook
        /\ (~StandardName(cName) /\ params.hook = "nil") =>
              ~cOut.hooked /\ cOut.res = "fatal"

\* A known system that is not the current one was asked for while a hook
\* that would have answered true was supplied.
C12_Witness ==
    /\ cState = "done"
    /\ cName = S_darwin
    /\ params.hook = "true"
    /\ cOut = [res |-> "false", hooked |-> FALSE]

\* ----------------------------------------------------------------- C13

\* C13: whatever the interleaving, PATH is searched at most once for a
\* program, and all the answers given for it are the same.
C13_ProbeOnce ==
    \A g \in Progs : kProbes # <<>> => kProbes[g] <= 1 /\ Cardinality(kReturned[g]) <= 1

\* Both units asked for the same program, it was searched for once, each
\* unit has had its answer, and one of them has asked twice.
C13_Witness ==
    /\ kProbes # <<>>
    /\ \E g \in Progs :
          /\ kProbes[g] = 1
          /\ Cardinality(kReturned[g]) = 1
          /\ \A u \in Units : kProg[u] = g /\ kEvals[u] >= 1
          /\ \E u \in Units : kEvals[u] = 2

\* ---- C14 ----

\* The sequence s, last element first.
Backwards(s) == [i \in 1..Len(s) |-> s[Len(s) + 1 - i]]

\* No function was handed to Defer twice.
RegisteredOnce == \A i, j \in 1..Len(registered) : registered[i] = registered[j] => i = j

\* C14: the functions handed to Defer, by the setup hook or by commands, are
\* each run exactly once at teardown, last registered first, whether the unit
\* passes or fails; none runs before teardown, and the work directory is
\* removed only after all of them have run.
C14_DeferredOnceReversed ==
    /\ RegisteredOnce
    /\ pc \in {"setup", "run", "verdict", "d_updates", "d_deferred"} => ranDeferred = <<>>
    /\ pc \in {"d_teardown", "done", "exit"} => ranDeferred = Backwards(registered)
    /\ workdir = "removed" => pc = "exit" /\ ranDeferred = Backwards(registered)

\* A failing unit whose setup hook and two commands each registered a
\* function has run all three, and its work directory is gone.
C14_Witness ==
    /\ pc = "exit"
    /\ failed # <<>>
    /\ workdir = "removed"
    /\ registered = <<0, 1, 2>>
    /\ ranDeferred = <<2, 1, 0>>

\* ---- C15 ----

\* C15: when the call of a registered function has returned, the two strings
\* it returns are exactly the bytes the function wrote to standard output and
\* to standard error during the call, in order, none lost and none added.
C15_CaptureIsWhatWasWritten ==
    \A u \in Units : callPc[u] = "returned" => captured[u] = wrote[u]

\* ---- C16 ----

\* The bytes of a sequence come from unit u alone.
OnlyFrom(u, bytes) == \A i \in 1..Len(bytes) : bytes[i].by = u

\* C16: however the calls of test units that run in parallel interleave, once
\* every call has returned os.Stdout and os.Stderr are the files the process
\* started with, and no unit has captured a byte another unit's function wrote.
C16_RestoredAndSeparate ==
    (\A u \in Units : callPc[u] = "returned")
        => /\ osStdout = OrigFile("out")
           /\ osStderr = OrigFile("err")
           /\ \A u \in Units : /\ OnlyFrom(u, captured[u].out)
                               /\ OnlyFrom(u, captured[u].err)

\* ---- C17 ----

\* http has returned for a request that ended without a transport error.
ReturnedWithoutTransportError == respState = "done" /\ endResult.errs = <<>>

\* What C17 says of the failures: 500 and up is an internal error whose
\* message holds the body, 400 to 499 a bad request.
FailuresByStatus ==
    LET st == endResult.resp.StatusCode IN
    /\ st >= 500 => /\ HasPrefix(respOut.err, InternalErrorHead)
                    /\ Contains(respOut.err, endResult.body)
    /\ (st >= 400 /\ st <= 499) => HasPrefix(respOut.err, <<"Bad Request:\n">>)
    /\ st < 400 => respOut.err = <<>>
    /\ ~respOut.panic

\* C17 as stated: for a request that ends without transport error, a status
\* of 500 or more gives an internal-error failure whose message holds the
\* response body, 400 to 499 a bad-request failure, and anything below 400
\* success with the response body as standard output and no error.
C17_StdoutIsBody ==
    ReturnedWithoutTransportError
        => /\ FailuresByStatus
           /\ endResult.resp.StatusCode < 400 => respOut.stdout = endResult.body

\* C17, amended: the same failures; below 400 the standard output is the
\* response body followed by one newline, and there is no error.
C17_StdoutIsBodyAndNewline ==
    ReturnedWithoutTransportError
        => /\ FailuresByStatus
           /\ endResult.resp.StatusCode < 400
                => /\ respOut.stdout = endResult.body \o <<"\n">>
                   /\ respOut.stderr = <<>>

\* A 200 with body "b": success, standard output "b\n".
C17_Witness ==
    /\ ReturnedWithoutTransportError
    /\ endResult.resp.StatusCode = 200
    /\ endResult.body = <<"b">>
    /\ respOut.stdout = <<"b", "\n">>
    /\ respOut.err = <<>>

\* ---- C18 ----

\* C18: a transport error whose text holds the GOAWAY signature is
\* swallowed, http reports no failure for it and the answer is what the
\* status alone makes it; every other transport error is reported as an
\* internal-error failure.
C18_GoawaySwallowed ==
    (respState = "done" /\ endResult.errs # <<>>)
        => IF Contains(endResult.errs[1], HTTP2_GOAWAY_CHECK)
           THEN respOut = httpResult([endResult EXCEPT !.errs = <<>>])
           ELSE /\ ~respOut.panic
                /\ \/ HasPrefix(respOut.err, InternalErrorHead)
                   \/ HasPrefix(respOut.err, InternalWeirdrErrorHead)

\* ---- C19 ----

\* The data of an entry as its reader takes it: unquoted if the output
\* recorded for it had to be quoted.
ReadBack(data, output) == IF NeedsQuote(output) THEN Unquote(data) ELSE data

\* C19: after the updates were applied and the script file was written,
\* parsing the file gives, for every recorded output whose name is in the
\* archive, an entry that reads back as exactly that output, and every
\* other entry, and the comment, as they were.
C19_UpdateRoundTrip ==
    (updState = "done" /\ updOut = "updated")
        => LET re == ParseArchive(disk) IN
           /\ re.comment = Archive0.comment
           /\ Len(re.files) = Len(Archive0.files)
           /\ \A k \in 1..Len(Archive0.files) :
                LET name == Archive0.files[k].name IN
                /\ re.files[k].name = name
                /\ IF name \in DOMAIN scriptUpdates
                   THEN ReadBack(re.files[k].data, scriptUpdates[name])
                            = scriptUpdates[name]
                   ELSE re.files[k].data = Archive0.files[k].data

\* An output for f with a line that reads as a marker was written, quoted,
\* and g was left alone.
C19_Witness ==
    /\ updState = "done"
    /\ updOut = "updated"
    /\ DOMAIN scriptUpdates = {NameF}
    /\ scriptUpdates[NameF] = <<Marker(NameG), <<"a">> >>
    /\ disk # Format(Archive0)

\* ---- C20 ----

\* An output is recorded against h, a name the archive lacks.
UpdateOfAbsentName == updState = "done" /\ NameH \in DOMAIN scriptUpdates

\* C20 as stated: if a recorded update names a path that is in no entry of
\* the archive, the run halts with a panic, not a failed unit, and the
\* script file is not rewritten.
C20_AbsentNamePanics ==
    UpdateOfAbsentName => updOut = "panic" /\ disk = Format(Archive0)

\* C20, amended: the script file is not rewritten, and the run halts with a
\* panic, unless the loop came first to another recorded output, one that
\* needs quoting, and its quoting failed: then the unit fails.
C20_AbsentNameNeverWritten ==
    UpdateOfAbsentName
        => /\ disk = Format(Archive0)
           /\ updOut \in {"panic", "fatal"}
           /\ updOut = "fatal"
                => \E name \in DOMAIN scriptUpdates \ {NameH} :
                       NeedsQuote(scriptUpdates[name])

\* The output for f was put into the archive in memory, then h was not
\* found: a panic, and the file is as it was.
C20_Witness ==
    /\ UpdateOfAbsentName
    /\ updOut = "panic"
    /\ archive # Archive0
    /\ disk = Format(Archive0)

\* ---- C21 ----

\* The last line of a transcript is the token k.
EndsIn(lg, k) == Len(lg) >= 2 /\ lg[Len(lg)] = NL /\ lg[Len(lg) - 1].k = k

\* The last line but one is the token k.
EndsInBeforeLast(lg, k) ==
    Len(lg) >= 4 /\ lg[Len(lg) - 2] = NL /\ lg[Len(lg) - 3].k = k

\* The transcript was handed to t.Log.
Flushed == pc \in {"done", "exit"} /\ flushed # <<>>

\* The marker k closes the transcript, or is followed only by the line that
\* reports the script file as updated, when it was.
MarkerThenUpdate(lg, k) ==
    IF scriptUpd = "written"
    THEN EndsIn(lg, "updated") /\ EndsInBeforeLast(lg, k)
    ELSE EndsIn(lg, k)

\* C21 as stated: the transcript flushed for a failed unit ends in the FAIL
\* marker with the number of the line that was executing, the one flushed
\* for a unit that ran to the end without failure (and was not stopped) ends
\* in PASS, updates recorded or not.
C21_EndsInMarker ==
    Flushed
        => /\ (failed # <<>> \/ scriptUpd = "failed")
                => /\ EndsIn(flushed[1], "FAIL")
                   /\ flushed[1][Len(flushed[1]) - 1].n = lineno
           /\ (failed = <<>> /\ scriptUpd # "failed" /\ ~stopped)
                => EndsIn(flushed[1], "PASS")

\* C21, amended: a Fatalf leaves the FAIL marker with the line number, and a
\* run to the end that was not stopped leaves PASS, as the last line of the
\* transcript, or as the last but one when the script file was updated,
\* "<file> updated" being logged after it; a unit that fails only because
\* the updated file could not be written has the transcript it had.
C21_MarkerThenUpdate ==
    Flushed
        => /\ failed # <<>>
                => /\ MarkerThenUpdate(flushed[1], "FAIL")
                   /\ \E i \in 1..Len(flushed[1]) :
                        flushed[1][i] = [k |-> "FAIL", n |-> lineno]
                   /\ FailCount(flushed[1]) = 1
           /\ (failed = <<>> /\ ~stopped)
                => /\ scriptUpd # "failed" => MarkerThenUpdate(flushed[1], "PASS")
                   /\ scriptUpd = "failed" => EndsIn(flushed[1], "PASS")
                   /\ FailCount(flushed[1]) = 0

\* A unit recorded an update, failed at its second line, and the file was
\* written: FAIL with the line number, then the line about the update.
C21_Witness ==
    /\ Flushed
    /\ failed # <<>>
    /\ lineno = 2
    /\ scriptUpd = "written"
    /\ EndsIn(flushed[1], "updated")
    /\ flushed[1][Len(flushed[1]) - 3] = [k |-> "FAIL", n |-> 2]

\* ---- C22 ----

NotTime(t) == t.k # "time"

\* A log without the elapsed times markTime puts into the headings.
StripTime(lg) == SelectSeq(lg, NotTime)

CountTok(lg, k) == Cardinality({i \in 1..Len(lg) : lg[i].k = k})

IsPrefix(a, b) == Len(a) <= Len(b) /\ SubSeq(b, 1, Len(a)) = a

\* The loop comes to a phase line.
PhaseStep == pc = "run" /\ pc' = "run" /\ lineno' = lineno + 1 /\ lastLine'.kind = "phase"

\* C22: without -v a phase line drops everything logged since the mark of
\* the phase before and keeps what was there at the mark, the headings of
\* all earlier phases included, and the new heading follows; with -v no
\* step, phase change and run end included, drops anything logged before.
C22_PhaseRewind ==
    [][ /\ (PhaseStep /\ ~params.verbose)
            => /\ StripTime(log') = StripTime(SubSeq(log, 1, mark)) \o <<Tok("head"), NL>>
               /\ CountTok(log', "head") = CountTok(SubSeq(log, 1, mark), "head") + 1
               /\ CountTok(log', "echo") = 0
        /\ params.verbose => IsPrefix(StripTime(log), StripTime(log'))
      ]_vars

\* Without -v: a heading, a command that is echoed, a second heading. The
\* first heading is there, with its time, and the echo is gone.
C22_Witness ==
    /\ ~params.verbose /\ ~params.testWork
    /\ pc = "run"
    /\ lineno = 3
    /\ lastLine.kind = "phase"
    /\ log = <<Tok("head"), Tok("time"), NL, Tok("head"), NL>>


\* ----------------------------------------------------------------- C23

\* The signals a subprocess was sent are in the order interruptProcess
\* sends them: a kill only directly behind an interrupt that failed.
KillOnlyAfterFailedInterrupt(p) ==
    \A j \in 1..Len(p.sigs) :
        p.sigs[j] = "kill" => j > 1 /\ p.sigs[j - 1] = "interrupt failed"

\* C23: of every subprocess waited for, in the foreground by exec or in the
\* background until the teardown drains it: a wait that left its select
\* because the context fired has sent the interrupt before it goes on
\* waiting; a kill is sent only directly after an interrupt that could not
\* be delivered, which happens only where the platform has no interrupt or
\* the process is already finished; and a wait returns, and the teardown is
\* over, only when the subprocess has exited.
C23_InterruptThenWait ==
    /\ \A i \in 1..Len(procs) :
        /\ waiter[i] = "signalled" => procs[i].sigs # <<>> /\ procs[i].sigs[1] # "kill"
        /\ KillOnlyAfterFailedInterrupt(procs[i])
        /\ (\E j \in 1..Len(procs[i].sigs) : procs[i].sigs[j] = "interrupt failed")
              => windows \/ procs[i].state = "reaped"
        /\ waiter[i] = "returned" => procs[i].state = "reaped"
        /\ (xPc = "exec" /\ ~procs[i].bg /\ procs[i].state # "reaped") => i = Len(procs)
    /\ xPc = "done" => \A i \in 1..Len(procs) : procs[i].state = "reaped"

\* The context fired while a foreground and a background subprocess were
\* running; both got the interrupt, exited, and the teardown is over.
C23_Witness ==
    /\ ~windows /\ ctxDone /\ xPc = "done" /\ Len(procs) = 2
    /\ \E i, j \in 1..2 :
        /\ ~procs[i].bg /\ procs[i].sigs = <<"interrupt">>
        /\ procs[j].bg /\ procs[j].sigs = <<"interrupt", "interrupt">>

\* ----------------------------------------------------------------- C24

\* C24: after every attempt to launch a subprocess, in the foreground or in
\* the background, whether the command was found and started or the lookup
\* or the start failed, ts.stdin is empty.
C24_StdinEmptyAfterLaunch ==
    (xLast # <<>> /\ xLast.kind \in {"exec", "exec &"} /\ xLast.returned)
        => xStdin = ""


\* ----------------------------------------------------------------- C25

\* The keys a script may ask for.
AskedKeys == EnvKeys \cup { <<"B">>, <<"=">> }

\* C25: when setup folds the hook's Env into the Script, Script.Getenv of
\* every key is Env.Getenv of that key on the hook's final Vars (the value of
\* the last entry whose key, as the platform compares keys, is the key asked
\* for; the empty string if there is none), and ts.cd is the hook's final Cd.
C25_FoldedEnv ==
    [][ (ePhase = "new" /\ ePhase' = "ready")
           => /\ \A key \in AskedKeys :
                   Getenv(windows, envMap', key) = EnvGetenv(windows, eHook.Vars, key)
              /\ eCd' = eHook.Cd
      ]_vars

\* Setup has folded in a list in which the hook overrode the standard entry
\* and changed the directory.
C25_Witness ==
    /\ ePhase = "ready" /\ eCd = "work/sub"
    /\ env = eHook.Vars
    /\ env = << <<"A", "=", "a">>, <<"A", "=">>, <<"A">> >>
    /\ Getenv(windows, envMap, <<"A">>) = <<>>


\* ----------------------------------------------------------------- C26

\* s holds nothing but blanks.
OnlyBlanks(s) == \A i \in 1..Len(s) : s[i] \in WhiteSpace

\* The line is empty, or blanks, or blanks and a comment behind an unquoted
\* "#", or it begins with the comment prefix.
NoCommandText(line) ==
    \/ OnlyBlanks(line)
    \/ \E i \in 1..Len(line) : line[i] = "#" /\ OnlyBlanks(SubSeq(line, 1, i - 1))
    \/ HasPrefix(line, <<"~">>)

\* The step takes the next line off the script.
TakesLine == pc = "run" /\ lineno' # lineno

\* The step dispatches nothing, echoes nothing, starts no phase, fails
\* nothing, and the line number is one more.
SkipsLine ==
    /\ log' = log /\ mark' = mark /\ started' = started
    /\ lastCall' = lastCall /\ background' = background /\ stopped' = stopped
    /\ failed' = failed /\ pc' = "run"
    /\ lineno' = lineno + 1

\* C26 as stated: every line that is empty, blank, only a "#" comment or
\* that begins with the comment prefix is passed over, the line number
\* going up by one.
C26_NoCommandLineSkipped ==
    [][ (TakesLine /\ NoCommandText(lastLine'.text)) => SkipsLine ]_vars

\* C26: such a line is passed over, the line number going up by one, unless
\* it begins with the phase prefix "#": that line is a phase heading.
C26_NoCommandLineSkippedUnlessPhase ==
    [][ /\ (TakesLine /\ NoCommandText(lastLine'.text)
               /\ ~HasPrefix(lastLine'.text, PhasePrefix)) => SkipsLine
        /\ (TakesLine /\ HasPrefix(lastLine'.text, PhasePrefix))
               => /\ lastLine'.kind = "phase"
                  /\ mark' = Len(log') /\ log' # log /\ lineno' = lineno + 1
      ]_vars

\* A command was echoed, then a line of blanks and a quote behind "#" and a
\* line comment were passed over, and the command of line 4 fails as line 4.
C26_Witness ==
    /\ ~params.verbose /\ ~params.testWork
    /\ lineno = 4 /\ lastLine.n = 4 /\ lastLine.kind = "fatal"
    /\ failed = <<[by |-> "handler", line |-> 4]>>
    /\ log = <<Tok("echo"), NL, Tok("echo"), NL>> \o FailText(4)


\* ----------------------------------------------------------------- C27

\* The words of a line, counted by a scan that knows only blanks, quotes and
\* the "#" that ends the line: a word starts at a character that is no blank
\* and stands outside a word, and ends at a blank outside quotes.
RECURSIVE WordCountFrom(_, _, _, _)
WordCountFrom(line, i, quoted, inword) ==
    IF i > Len(line) THEN 0
    ELSE IF quoted
    THEN WordCountFrom(line, i + 1, line[i] # "'", TRUE)
    ELSE IF line[i] = "#" THEN 0
    ELSE IF line[i] \in {" ", "\t", "\r"}
    THEN WordCountFrom(line, i + 1, FALSE, FALSE)
    ELSE (IF inword THEN 0 ELSE 1) + WordCountFrom(line, i + 1, line[i] = "'", TRUE)

WordCount(line) == WordCountFrom(line, 1, FALSE, FALSE)

\* A "$" stands outside quotes, before the "#" that ends the line.
RECURSIVE DollarOutsideFrom(_, _, _)
DollarOutsideFrom(line, i, quoted) ==
    IF i > Len(line) THEN FALSE
    ELSE IF quoted THEN DollarOutsideFrom(line, i + 1, line[i] # "'")
    ELSE IF line[i] = "#" THEN FALSE
    ELSE line[i] = "$" \/ DollarOutsideFrom(line, i + 1, line[i] = "'")

DollarOutside(line) == DollarOutsideFrom(line, 1, FALSE)

\* The value put where the placeholder M stands.
RECURSIVE SubstM(_, _)
SubstM(s, val) ==
    IF s = <<>> THEN <<>>
    ELSE (IF Head(s) = "M" THEN val ELSE <<Head(s)>>) \o SubstM(Tail(s), val)

\* The environment in which V is the placeholder.
PlaceholderMap(win) == ReplayEnv(win, << <<"V", "=", "M">> >>, EmptyMap)

\* C27: parse substitutes variables in the text outside quotes only and does
\* not split again: a line has as many arguments as it has words, whatever
\* the values hold; the arguments are those parse gives with a placeholder
\* for the value, with the whole value put where the placeholder stands; and
\* a line with no "$" outside quotes parses as it does with no variables set.
C27_ExpandNeverResplits ==
    (pState = "done" /\ ~pFatal) =>
        /\ Len(pArgs) = WordCount(pLine)
        /\ LET marked == parse(windows, PlaceholderMap(windows), pLine).args
           IN  pArgs = [k \in 1..Len(marked) |->
                           SubstM(marked[k], Getenv(windows, envMap, <<"V">>))]
        /\ ~DollarOutside(pLine) => pArgs = parse(windows, EmptyMap, pLine).args

\* V holds a quote, a blank, a "#" and a tab; the line '$V'$V gave one
\* argument: the quoted $V as it stands, and behind it the whole value.
C27_Witness ==
    /\ pState = "done" /\ ~pFatal
    /\ env = ParseEnvMarks
    /\ pLine = <<"'", "$", "V", "'", "$", "V">>
    /\ pArgs = << <<"$", "V", "'", " ", "#", "\t">> >>


\* ----------------------------------------------------------------- C28

\* The part of an argument before its first "=", and the part behind it.
KeyOf(arg) == IF Index(arg, "=") >= 0 THEN Slice(arg, 0, Index(arg, "=")) ELSE arg

ValOf(arg) == IF Index(arg, "=") >= 0 THEN Slice(arg, Index(arg, "=") + 1, Len(arg)) ELSE <<>>

Verbs ==
    { <<"G", "E", "T">>, <<"P", "O", "S", "T">>, <<"H", "E", "A", "D">>, <<"P", "U", "T">>,
      <<"D", "E", "L", "E", "T", "E">>, <<"P", "A", "T", "C", "H">>,
      <<"O", "P", "T", "I", "O", "N", "S">> }

RecognizedKeys ==
    { <<"U">>, <<"U", "R", "L">>, <<"T">>, <<"T", "Y", "P", "E">>,
      <<"Q">>, <<"Q", "U", "E", "R", "Y">>, <<"R">>, <<"R", "E", "T", "R", "Y">>,
      <<"D">>, <<"D", "A", "T", "A">>, <<"S">>, <<"S", "E", "N", "D">>,
      <<"F">>, <<"F", "I", "L", "E">>, <<"A">>, <<"A", "U", "T", "H">>,
      <<"H">>, <<"H", "E", "A", "D", "E", "R">>, <<"M">>, <<"M", "E", "T", "H", "O", "D">> }
    \cup Verbs

\* The step applies the argument aArgs[aNext].
AppliesArg == aPc = "apply" /\ aNext' = aNext + 1

\* C28: an argument whose key is neither a recognized key nor a verb: when
\* the argument starts with http, the URL of the request becomes the
\* argument and there is no error; otherwise an unknown-key error is returned,
\* the test unit is aborted and the request is never issued.
C28_UnknownKey ==
    [][ /\ (AppliesArg /\ ToUpper(KeyOf(aArgs[aNext])) \notin RecognizedKeys)
            => IF HasPrefix(aArgs[aNext], <<"h", "t", "t", "p">>)
               THEN aOut' = "ok" /\ aHeap'[1].Url = aArgs[aNext]
               ELSE aOut' = "err" /\ aHeap' = aHeap
        /\ aOut = "err" => aPc' \in {"check", "aborted"} /\ ~aIssued'
      ]_vars

\* ----------------------------------------------------------------- C29

\* C29: METHOD=V and M=V, the key in any letter case, leave the request with
\* the method V, as the bare token V does; the last method argument wins.
C29_MethodKey ==
    [][ /\ (AppliesArg /\ ToUpper(KeyOf(aArgs[aNext])) \in { <<"M">>, <<"M", "E", "T", "H", "O", "D">> }
               /\ ValOf(aArgs[aNext]) \in Verbs)
            => aOut' = "ok" /\ aHeap'[1].Method = ValOf(aArgs[aNext])
        /\ (AppliesArg /\ aArgs[aNext] \in Verbs)
            => aOut' = "ok" /\ aHeap'[1].Method = aArgs[aNext]
      ]_vars

\* ----------------------------------------------------------------- C30

\* The fields of a retry specification parse: a count, a duration, and codes.
RetryParses(flds) ==
    /\ Len(flds) >= 2
    /\ AtoiOk(flds[1])
    /\ DurationOk(flds[2])
    /\ \A i \in 3..Len(flds) : AtoiOk(flds[i])

\* C30: a retry specification of a count, a duration and no or more status
\* codes is accepted and gives that count, that delay and exactly those
\* codes; one with a part that does not parse aborts the test unit.
C30_RetrySpec ==
    [][ (AppliesArg /\ ToUpper(KeyOf(aArgs[aNext])) \in { <<"R">>, <<"R", "E", "T", "R", "Y">> })
            => IF RetryParses(Fields(ValOf(aArgs[aNext])))
               THEN /\ aOut' = "ok"
                    /\ Len(aHeap'[1].Retry) = 1
                    /\ aHeap'[1].Retry[1].count = Atoi(Fields(ValOf(aArgs[aNext]))[1])
                    /\ aHeap'[1].Retry[1].delay = Duration(Fields(ValOf(aArgs[aNext]))[2])
                    /\ aHeap'[1].Retry[1].codes
                         = [i \in 1..(Len(Fields(ValOf(aArgs[aNext]))) - 2) |->
                               Atoi(Fields(ValOf(aArgs[aNext]))[i + 2])]
               ELSE aOut' = "fatal" /\ aPc' = "aborted"
      ]_vars


\* ----------------------------------------------------------------- C31

IsGuardToken(w) == HasPrefix(w, <<"[">>) /\ HasSuffix(w, <<"]">>)

IsModifierToken(w) == w \in { <<"!">>, <<"?">> }

\* The words of a line behind its leading guards.
RECURSIVE StripGuards(_)
StripGuards(ws) ==
    IF ws # <<>> /\ IsGuardToken(Head(ws)) THEN StripGuards(Tail(ws)) ELSE ws

BehindGuards(line) == StripGuards(Fields(line))

\* The last line got past its guards: it was not skipped and no guard of it
\* failed the test.
PastGuards ==
    /\ lastLine.n > 0
    /\ lastLine.kind \in {"call", "fatal"}
    /\ lastLine.kind = "fatal" => failed[1].by \notin {"parse", "guard", "condition"}

\* The handler of the last line was called with this flag, verb and arguments.
CalledWith(neg, verb, rest) ==
    /\ lastCall.line = lastLine.n
    /\ lastCall.neg = neg
    /\ lastCall.verb = verb
    /\ lastCall.args = rest

\* C31: on a line that got past its guards only the first word behind the
\* guards is taken as a modifier: the handler is called with 1 after !, -1
\* after ?, 0 otherwise, and with the words behind the verb; a modifier with
\* nothing behind it fails the test; and a second modifier or a guard behind
\* the modifier is looked up as the command, which fails as unknown.
C31_ModifierAfterGuards ==
    PastGuards =>
        LET ws == BehindGuards(lastLine.text)
            md == IsModifierToken(ws[1])
            rest == IF md THEN Tail(ws) ELSE ws
        IN  /\ ws # <<>>
            /\ IF rest = <<>>
               THEN failed = <<[by |-> "modifier", line |-> lastLine.n]>>
               ELSE IF IsModifierToken(rest[1]) \/ IsGuardToken(rest[1])
               THEN /\ failed = <<[by |-> "unknown", line |-> lastLine.n]>>
                    /\ lastCall.line # lastLine.n
               ELSE CalledWith(IF ws[1] = <<"!">> THEN 1 ELSE IF ws[1] = <<"?">> THEN -1 ELSE 0,
                               rest[1], Tail(rest))

\* Line 1, [short] ! exec p a, called exec with 1 and p a; line 2, ! ! exec p,
\* failed with an unknown command.
C31_Witness ==
    /\ lineno = 2 /\ lastLine.n = 2
    /\ lastLine.text = <<"!", " ", "!", " ", "e", "x", "e", "c", " ", "p">>
    /\ failed = <<[by |-> "unknown", line |-> 2]>>
    /\ lastCall.line = 1 /\ lastCall.neg = 1 /\ lastCall.verb = S_exec
    /\ lastCall.args = << <<"p">>, <<"a">> >>
    /\ Len(lastCall.args) = 2


\* ----------------------------------------------------------------- C33

\* The guards a line begins with.
RECURSIVE LeadingGuards(_)
LeadingGuards(ws) ==
    IF ws # <<>> /\ IsGuardToken(Head(ws))
    THEN <<Head(ws)>> \o LeadingGuards(Tail(ws))
    ELSE <<>>

\* The text between the brackets of a guard, the polarity it asks for, and
\* the condition it names.
GuardText(w) == TrimSpace(SubSeq(w, 2, Len(w) - 1))

GuardWant(w) == ~HasPrefix(GuardText(w), <<"!">>)

GuardCond(w) == IF GuardWant(w) THEN GuardText(w) ELSE TrimSpace(Tail(GuardText(w)))

\* The conditions evaluated on the last line, all but the last of them, were
\* satisfied.
AllButLastSatisfied(ev) == \A i \in 1..(Len(ev) - 1) : ev[i].ok = ev[i].want

LastUnsatisfied(ev) == ev # <<>> /\ ev[Len(ev)].ok # ev[Len(ev)].want

\* C33: the guards of a line are evaluated from the left, those evaluated
\* are the first guards of the line in their order, and only the last one
\* evaluated can be unsatisfied: then the line is skipped without a failure,
\* whatever stands behind it (an unknown condition, a condition the hook
\* fails on, no command at all).  When every guard evaluated was satisfied
\* and a guard is left, that guard failed the test: for want of a command
\* behind it, or because its condition is unknown or the hook failed.
C33_GuardsLeftToRight ==
    (lastLine.n > 0 /\ lastLine.kind \in {"call", "fatal", "skip"}
        /\ LeadingGuards(Fields(lastLine.text)) # <<>>) =>
        LET ws == Fields(lastLine.text)
            gs == LeadingGuards(ws)
            ev == lastLine.evals
        IN  /\ Len(ev) <= Len(gs)
            /\ \A i \in 1..Len(ev) :
                  ev[i].cond = GuardCond(gs[i]) /\ ev[i].want = GuardWant(gs[i])
            /\ AllButLastSatisfied(ev)
            /\ IF LastUnsatisfied(ev)
               THEN lastLine.kind = "skip" /\ failed = <<>> /\ lastCall.line # lastLine.n
               ELSE /\ lastLine.kind # "skip"
                    /\ Len(ev) < Len(gs) =>
                          /\ lastLine.kind = "fatal"
                          /\ failed[1].line = lastLine.n
                          /\ failed[1].by =
                                IF Len(ws) = Len(ev) + 1 THEN "guard" ELSE "condition"
                    /\ (Len(gs) = Len(ws) /\ lastLine.kind = "fatal")
                          => failed[1].by \in {"guard", "condition"}

\* On a short host whose hook fails on unknown conditions, line 2,
\* [!short] [nope] exec p, was skipped after one evaluation, without failure.
C33_Witness ==
    /\ host.short /\ params.hook = "err"
    /\ lineno = 2 /\ lastLine.n = 2
    /\ lastLine.text = <<"[", "!", "s", "h", "o", "r", "t", "]", " ", "[", "n", "o", "p", "e", "]",
                         " ", "e", "x", "e", "c", " ", "p">>
    /\ lastLine.kind = "skip"
    /\ Len(lastLine.evals) = 1
    /\ failed = <<>>


\* ----------------------------------------------------------------- C32

C34_CallReturns ==
    \A u \in Units : (callPc[u] = "fn") ~> (callPc[u] = "returned")


\* A call comes back whenever fn itself returns: the only call that stays
\* behind is the one whose fn ended its goroutine.
CallReturnsUnlessFnGone ==
    \A u \in Units : (callPc[u] = "fn") ~> (callPc[u] \in {"returned", "fnGone"})

\* The call stays where fn left it: the standard streams of the process still
\* point at the pipes of that call.
FnGoneStaysRedirected ==
    [][\A u \in Units : callPc[u] = "fnGone" => callPc'[u] = "fnGone"]_vars


\* ----------------------------------------------------------------- C36

\* C36: the answer a unit gets for exec:<prog> is true exactly when prog is
\* found on the PATH the unit had when it asked.
C36_AnswerFromOwnPath ==
    \A u \in Units :
        kAnswer # <<>> /\ kAnswer[u] # NoAnswer =>
            (kAnswer[u].ok <=> Look(kAnswer[u].prog, kAnswer[u].path))


\* ----------------------------------------------------------------- C35

\* The deferred applyScriptUpdates has run, or was never in force.
PastUpdates == pc \in {"d_deferred", "d_teardown", "done", "exit"}

CountedOut(u) == wPc[u] \in {"last", "done"}

\* C38: with retention off every unit that has ended has removed its work
\* directory, the root is removed at most once, by the unit that counted
\* itself out last and when no work directory is left, and it is gone when
\* all units are done; with TestWork, -testwork or a WorkdirRoot nothing is
\* ever removed.
C38_RootRemovedOnceByLast ==
    wPc # <<>> =>
        IF Retained(wParams)
        THEN /\ \A u \in DOMAIN wPc : wDir[u] # "removed"
             /\ wRoot = "present"
             /\ wRemoves = 0
        ELSE /\ \A u \in DOMAIN wPc : CountedOut(u) => wDir[u] # "present"
             /\ wRemoves <= 1
             /\ \A u \in DOMAIN wPc : wPc[u] = "last"
                    => \A v \in DOMAIN wPc : CountedOut(v) /\ wDir[v] # "present"
             /\ wRemoves = 1
                    => /\ wRoot = "removed"
                       /\ \A v \in DOMAIN wPc : wPc[v] = "done"
             /\ (\A v \in DOMAIN wPc : wPc[v] = "done")
                    => wRemoves = 1 /\ wRoot = "removed"

\* Three units, one passed, one failed in its script and one in setup, all
\* done: the two work directories and then the root were removed.
C38_Witness ==
    /\ wPc = [u \in 1..3 |-> "done"]
    /\ ~Retained(wParams)
    /\ wEnd = <<"pass", "fail", "fail">>
    /\ wDir = <<"removed", "removed", "unset">>
    /\ wRoot = "removed"
    /\ wRemoves = 1

\* A run with a WorkdirRoot and no TestWork asked for: all units are done
\* and everything is still there.
C38_WitnessRetained ==
    /\ wPc = [u \in 1..2 |-> "done"]
    /\ wParams = [testWork |-> TRUE, flag |-> FALSE, workdirRoot |-> TRUE]
    /\ wDir = <<"present", "present">>
    /\ wRoot = "present"


\* ----------------------------------------------------------------- C39

\* The mark is an offset into the log, and while the time of a phase is
\* running it is the offset behind the newline of the phase's heading.
MarkInLog ==
    /\ 0 <= mark
    /\ mark <= Len(log)
    /\ (mark > 0 /\ started) => log[mark] = NL /\ log[mark - 1].k = "head"

\* The log lg with the elapsed time put at the end of the line in front of
\* the mark mk.
TimeInserted(lg, mk) ==
    SubSeq(lg, 1, mk - 1) \o <<Tok("time"), NL>> \o SubSeq(lg, mk + 1, Len(lg))

\* What markTime finds: in the teardown the log as it is, in the loop and at
\* the end of the run what rewind made of it.
BeforeMarkTime ==
    IF pc = "d_teardown" THEN log ELSE rewind(params.verbose, log, mark)

\* C39: the mark always lies within the log, and a step that puts an elapsed
\* time into the log puts it at the end of the line in front of the mark,
\* with what was behind the mark following it unchanged.
C39_MarkWithinLog ==
    /\ MarkInLog
    /\ [][ /\ MarkInLog'
           /\ Len(rewind(params.verbose, log, mark)) <= Len(log)
           /\ CountTok(log', "time") # CountTok(log, "time")
                => /\ mark > 0
                   /\ started
                   /\ IsPrefix(TimeInserted(BeforeMarkTime, mark), log')
         ]_vars

\* A unit failed in its first phase: the teardown put the time behind the
\* heading, and the echoed command and the FAIL line are still behind it.
C39_Witness ==
    /\ pc = "done"
    /\ ~params.verbose /\ ~params.testWork
    /\ mark = 2
    /\ log = <<Tok("head"), Tok("time"), NL, Tok("echo"), NL, [k |-> "FAIL", n |-> 2], NL>>


\* ----------------------------------------------------------------- C37

====
